---- MODULE Spec2Model ----
(***************************************************************************)
(* Model of git-workty's lifecycle commands: `clean`                       *)
(* (src/src/commands/clean.rs), `rm` (src/src/commands/rm.rs) and `new`    *)
(* (src/src/commands/new.rs), as they are dispatched from main             *)
(* (src/src/main.rs) over a registry snapshot (src/src/worktree.rs) of one *)
(* repository (src/src/git.rs); and of the functions they rest on, each    *)
(* under a specification of its own: parse_worktree_list and               *)
(* slug_from_branch (src/src/worktree.rs), sort_worktrees                  *)
(* (src/src/commands/list.rs), get_all_statuses (src/src/status.rs).       *)
(*                                                                         *)
(* A path is a pair <<w, d>>: the directory at depth d below the root of   *)
(* worktree w; <<w, 0>> is the worktree's own path as the backend lists    *)
(* it.  Worktree 1 is the original checkout (the main worktree).  All      *)
(* paths are canonical, so canonicalize() leaves them as they are.         *)
(* An absent Option is the string "None" (names) or the empty sequence.    *)
(***************************************************************************)
EXTENDS Integers, Sequences, FiniteSets, TLC

\* ---- bounds of the model ------------------------------------------------
NumWorktrees == 4
MaxDetached == 1
MaxDirty == 1
CwdWorktrees == 2
StaleDays == 1

None == "None"
W == 1..NumWorktrees

\* Fixture names: worktree 2 sits in a directory called like worktree 3's
\* branch (it was created with an explicit path).
BranchPool ==
    <<"main", "feat/x", "hotfix", "feat/y", "feat/z", "feat/w", "feat/v">>
DirPool ==
    <<"repo", "hotfix", "wt-hotfix", "feat-y", "feat-z", "feat-w", "feat-v">>
BaseChoices == {"main", "feat/x"}

\* The worktrees that may be on a detached HEAD, and those that may be dirty
DetachedPool == {3, 4}
DirtyPool == {2, 3}

VARIABLES
    registry,          \* backend: the worktrees `git worktree list` reports
    dirty,             \* backend: paths of worktrees with uncommitted changes
    base,              \* Config.base
    cwd,               \* std::env::current_dir()
    start_path,        \* cli.directory (-C), None when not given
    stdin_tty,         \* std::io::stdin().is_terminal()
    pc,                \* position of the process
    cmd,               \* the subcommand that was dispatched
    opts,              \* CleanOptions / RmOptions
    repo_root,         \* GitRepo.root
    worktrees,         \* the registry snapshot list_worktrees returned
    candidates,        \* clean: candidates
    listed,            \* clean: the "  - name (dirty)" lines printed
    dirty_count,       \* clean: dirty_count
    clean_candidates,  \* clean: clean_candidates
    next_item,         \* clean: position of the removal loop
    removed,           \* clean: removed
    reported,          \* clean: <<n>> once "Cleaned up n worktree(s)." is printed
    target,            \* rm: <<wt>> once find_worktree found it
    is_dirty,          \* rm: is_dirty
    prompts,           \* number of confirmation prompts shown
    answer,            \* the user's answer to the prompt
    issued,            \* backend mutations issued, in order
    results,           \* outcome of each issued mutation, in order
    msgs,              \* messages printed (warnings, errors, notes)
    exit_code,         \* the process's exit code, meaningful once pc = "done"
    \* -- new (src/src/commands/new.rs)
    fs,                \* the directories that exist on disk
    branches,          \* backend: the local branches (refs/heads/*)
    upstream,          \* backend: what `rev-parse --abbrev-ref <base>@{u}` prints
    open_cmd,          \* Config.open_cmd
    new_opts,          \* NewOptions
    worktree_path,     \* new: worktree_path
    new_base,          \* new: base
    existing_wt,       \* new: existing_wt, <<wt>> once the branch was found
    branch_already_exists,  \* new: branch_already_exists
    \* -- parse_worktree_list (src/src/worktree.rs)
    output,            \* the lines of `git worktree list --porcelain`
    line_no,           \* position of the loop over output.lines()
    builder,           \* current: <<builder>>, or <<>> for None
    \* -- slug_from_branch (src/src/worktree.rs)
    branch,            \* the characters of the branch name
    slug_out,          \* <<s>> once slug_from_branch(branch) returned s
    slug_again,        \* <<s>> once slug_from_branch(slug) returned s
    \* -- list (src/src/commands/list.rs)
    rows,              \* the (worktree, status) rows before the sort
    list_current_path, \* list: current_path
    sorted,            \* <<rows>> once sort_worktrees returned
    \* -- get_all_statuses (src/src/status.rs)
    backend,           \* what git2 answers for each worktree path
    pending,           \* the items no worker has mapped yet
    slots,             \* the result each worker wrote for its item
    finished,          \* the items in the order the workers finished them
    statuses,          \* <<vec>> once collect() returned
    \* -- clean against a backend whose answers are known
    answers,           \* what the backend answers for each worktree path
    \* -- pick (src/src/commands/pick.rs)
    selection,         \* pick: selection, <<idx>> for Some(idx), <<>> for None
    printed,           \* the lines written to standard output
    \* -- two `new` processes at once (src/src/commands/new.rs)
    racers             \* per process: its options, target path and position

newVars == <<fs, branches, upstream, open_cmd, new_opts, worktree_path,
             new_base, existing_wt, branch_already_exists>>

parseVars == <<output, line_no, builder>>
slugVars == <<branch, slug_out, slug_again>>
sortVars == <<rows, list_current_path, sorted>>
statusVars == <<backend, pending, slots, finished, statuses>>
pureVars == <<parseVars, slugVars, sortVars, statusVars>>

runVars == <<answers, selection, printed, racers>>

\* Everything outside clean and rm
auxVars == <<newVars, pureVars, runVars>>

vars == <<registry, dirty, base, cwd, start_path, stdin_tty, pc, cmd, opts,
          repo_root, worktrees, candidates, listed, dirty_count,
          clean_candidates, next_item, removed, reported, target, is_dirty,
          prompts, answer, issued, results, msgs, exit_code, auxVars>>

envVars == <<dirty, base, cwd, start_path, stdin_tty>>
cleanVars == <<candidates, listed, dirty_count, clean_candidates, next_item,
               removed, reported>>
rmVars == <<target, is_dirty>>

\* ---- paths and the repository handle -------------------------------------
WorktreePath(w) == <<w, 0>>

\* `git rev-parse --show-toplevel` run in dir: the root of the worktree that
\* contains dir (not the root of the original checkout).
ShowToplevel(dir) == <<dir[1], 0>>

\* GitRepo::discover: the root is resolved from -C when given, else from cwd.
Discover(start, current) ==
    LET from == IF start = None THEN current ELSE start
    IN  [root |-> ShowToplevel(from)]

\* path.file_name() of a worktree path
FileName(path) == DirPool[path[1]]

\* ---- the registry --------------------------------------------------------
\* One parsed record: a detached record has no branch line.
Worktree(w, det) ==
    [path |-> WorktreePath(w),
     branch_short |-> IF det THEN None ELSE BranchPool[w],
     detached |-> det]

\* Worktree::name
Name(wt) ==
    IF wt.branch_short # None THEN wt.branch_short ELSE FileName(wt.path)

\* Worktree::is_main_worktree
IsMainWorktree(wt, root) == wt.path = root

\* status::is_worktree_dirty, read against the backend's current state
IsWorktreeDirty(wt) == wt.path \in dirty

\* ---- initial states: the environment before the process starts ----------
NoOpts ==
    [merged |-> FALSE, gone |-> FALSE, stale_days |-> <<>>, dry_run |-> FALSE,
     yes |-> FALSE, name |-> None, force |-> FALSE, delete_branch |-> FALSE]

NoNewOpts ==
    [name |-> None, from |-> None, path |-> <<>>, print_path |-> FALSE,
     open |-> FALSE]

\* new has not run: its variables keep their start values
NewIdle ==
    /\ fs = {}
    /\ branches = {}
    /\ upstream = None
    /\ open_cmd = <<>>
    /\ new_opts = NoNewOpts
    /\ worktree_path = <<>>
    /\ new_base = None
    /\ existing_wt = <<>>
    /\ branch_already_exists = FALSE

ParseIdle == output = <<>> /\ line_no = 1 /\ builder = <<>>

SlugIdle == branch = <<>> /\ slug_out = <<>> /\ slug_again = <<>>

SortIdle == rows = <<>> /\ list_current_path = <<>> /\ sorted = <<>>

StatusIdle ==
    /\ backend = <<>>
    /\ pending = {}
    /\ slots = <<>>
    /\ finished = <<>>
    /\ statuses = <<>>

PureIdle == ParseIdle /\ SlugIdle /\ SortIdle /\ StatusIdle

RunIdle ==
    /\ answers = <<>>
    /\ selection = <<>>
    /\ printed = <<>>
    /\ racers = <<>>

AuxIdle == NewIdle /\ PureIdle /\ RunIdle

Init ==
    /\ \E D \in SUBSET (W \cap DetachedPool) :
          /\ Cardinality(D) <= MaxDetached
          /\ registry = [w \in W |-> Worktree(w, w \in D)]
    /\ \E X \in SUBSET (W \cap DirtyPool) :
          /\ Cardinality(X) <= MaxDirty
          /\ dirty = {WorktreePath(w) : w \in X}
    /\ base \in BaseChoices
    /\ cwd \in {<<w, d>> : w \in 1..CwdWorktrees, d \in 0..1}
    /\ start_path \in {None, WorktreePath(1)}
    /\ stdin_tty \in BOOLEAN
    /\ pc = "idle"
    /\ cmd = "none"
    /\ opts = NoOpts
    /\ repo_root = None
    /\ worktrees = <<>>
    /\ candidates = <<>>
    /\ listed = <<>>
    /\ dirty_count = 0
    /\ clean_candidates = <<>>
    /\ next_item = 1
    /\ removed = 0
    /\ reported = <<>>
    /\ target = <<>>
    /\ is_dirty = FALSE
    /\ prompts = 0
    /\ answer = "none"
    /\ issued = <<>>
    /\ results = <<>>
    /\ msgs = {}
    /\ exit_code = 0
    /\ AuxIdle

\* The process ends: std::process::exit(code), or main's return / error exit.
Exit(code) ==
    /\ pc' = "done"
    /\ exit_code' = code

\* ---- the backend as clean's filter sees it ----------------------------------
ThresholdSeconds(days) == days * 24 * 60 * 60

\* What the backend reports for one worktree: the ancestry check's result
\* (repo.is_merged: Ok(true), Ok(false) or Err), status.upstream_gone and
\* status.last_commit_time (seconds since the last commit, if known).
BackendFacts ==
    {[is_merged |-> "false", upstream_gone |-> FALSE, last_commit_time |-> <<>>],
     [is_merged |-> "true", upstream_gone |-> FALSE, last_commit_time |-> <<>>],
     [is_merged |-> "err", upstream_gone |-> FALSE, last_commit_time |-> <<>>],
     [is_merged |-> "false", upstream_gone |-> TRUE, last_commit_time |-> <<>>],
     [is_merged |-> "false", upstream_gone |-> FALSE,
      last_commit_time |-> <<ThresholdSeconds(StaleDays)>>],
     [is_merged |-> "err", upstream_gone |-> FALSE,
      last_commit_time |-> <<ThresholdSeconds(StaleDays) + 1>>]}

\* clean.rs: the exclusions at the head of the candidate filter
Excluded_NoDetached(wt, current_path, root, b) ==
    \/ wt.path = current_path
    \/ IsMainWorktree(wt, root)
    \/ (wt.branch_short # None /\ wt.branch_short = b)

Excluded(wt, current_path, root, b) ==
    \/ wt.path = current_path
    \/ IsMainWorktree(wt, root)
    \/ wt.detached
    \/ (wt.branch_short # None /\ wt.branch_short = b)

\* clean.rs: has_filter
HasFilter(o) == o.merged \/ o.gone \/ o.stale_days # <<>>

\* clean.rs: statuses is Some only when --gone or --stale was given
StatusesGathered_GoneOnly(o) == o.gone

StatusesGathered(o) == o.gone \/ o.stale_days # <<>>

\* clean.rs: the filter's checks after the exclusions; f is what the backend
\* reports for wt
MatchesFilter_DefaultTrue(wt, f, o) ==
    IF o.merged /\ wt.branch_short # None /\ f.is_merged = "true" THEN TRUE
    ELSE IF o.gone /\ StatusesGathered(o) /\ f.upstream_gone THEN TRUE
    ELSE IF /\ o.stale_days # <<>>
            /\ StatusesGathered(o)
            /\ f.last_commit_time # <<>>
            /\ f.last_commit_time[1] > ThresholdSeconds(o.stale_days[1])
         THEN TRUE
    ELSE TRUE

MatchesFilter(wt, f, o) ==
    IF ~HasFilter(o) THEN FALSE
    ELSE IF o.merged /\ wt.branch_short # None /\ f.is_merged = "true" THEN TRUE
    ELSE IF o.gone /\ StatusesGathered(o) /\ f.upstream_gone THEN TRUE
    ELSE IF /\ o.stale_days # <<>>
            /\ StatusesGathered(o)
            /\ f.last_commit_time # <<>>
            /\ f.last_commit_time[1] > ThresholdSeconds(o.stale_days[1])
         THEN TRUE
    ELSE FALSE

\* The worktrees of a snapshot that pass the exclusions
Eligible(snapshot, current_path, root, b) ==
    {snapshot[i].path : i \in {j \in DOMAIN snapshot :
                                  ~Excluded(snapshot[j], current_path, root, b)}}

\* clean.rs: candidates, in snapshot order
Candidates(snapshot, facts, o, current_path, root, b) ==
    LET Keep(wt) ==
            /\ ~Excluded(wt, current_path, root, b)
            /\ MatchesFilter(wt, facts[wt.path], o)
    IN  SelectSeq(snapshot, Keep)

\* ---- main: dispatch -----------------------------------------------------------
\* main.rs run(): Commands::Clean, with the repository discovered first
RunClean(merged, gone, stale_days, dry_run, yes) ==
    /\ pc = "idle"
    /\ cmd' = "clean"
    /\ opts' = [NoOpts EXCEPT !.merged = merged, !.gone = gone,
                              !.stale_days = stale_days,
                              !.dry_run = dry_run, !.yes = yes]
    /\ repo_root' = Discover(start_path, cwd).root
    /\ worktrees' = registry
    /\ pc' = "clean_select"
    /\ UNCHANGED <<registry, envVars, auxVars, cleanVars, rmVars, prompts, answer,
                   issued, results, msgs, exit_code>>

\* ---- clean::execute -------------------------------------------------------------
\* clean.rs 24-105: gather statuses, filter, and stop when nothing is left
CleanSelectWith(facts) ==
    /\ pc = "clean_select"
    /\ LET c == Candidates(worktrees, facts, opts, cwd, repo_root, base)
       IN  /\ candidates' = c
           /\ IF c = <<>>
              THEN /\ msgs' = msgs \cup {"No worktrees to clean up."}
                   /\ Exit(0)
              ELSE /\ msgs' = msgs
                   /\ pc' = "clean_list"
                   /\ UNCHANGED exit_code
    /\ UNCHANGED <<registry, envVars, auxVars, cmd, opts, repo_root, worktrees, listed,
                   dirty_count, clean_candidates, next_item, removed, reported,
                   rmVars, prompts, answer, issued, results>>

\* The backend answers anything for the worktrees the filter asks about
CleanSelect ==
    /\ pc = "clean_select"
    /\ \E facts \in [Eligible(worktrees, cwd, repo_root, base) -> BackendFacts] :
          CleanSelectWith(facts)

\* clean.rs 117: a dry run returns after the listing
StopsAfterListing_UnlessYes(o) == o.dry_run /\ ~o.yes

StopsAfterListing(o) == o.dry_run

\* clean.rs 107-120: list the candidates with their dirty annotation; a dry
\* run ends here
CleanList ==
    /\ pc = "clean_list"
    /\ listed' = [i \in DOMAIN candidates |->
                    [name |-> Name(candidates[i]),
                     dirty |-> IsWorktreeDirty(candidates[i])]]
    /\ IF StopsAfterListing(opts)
       THEN /\ msgs' = msgs \cup {"Dry run - no worktrees removed."}
            /\ Exit(0)
       ELSE /\ msgs' = msgs
            /\ pc' = "clean_count_dirty"
            /\ UNCHANGED exit_code
    /\ UNCHANGED <<registry, envVars, auxVars, cmd, opts, repo_root, worktrees,
                   candidates, dirty_count, clean_candidates, next_item,
                   removed, reported, rmVars, prompts, answer, issued, results>>

\* clean.rs 122-128: count the dirty candidates and announce the skip
CleanCountDirty ==
    /\ pc = "clean_count_dirty"
    /\ dirty_count' = Len(SelectSeq(candidates, IsWorktreeDirty))
    /\ msgs' = IF dirty_count' > 0
               THEN msgs \cup {"worktree(s) have uncommitted changes and will be skipped."}
               ELSE msgs
    /\ pc' = "clean_keep_clean"
    /\ UNCHANGED <<registry, envVars, auxVars, cmd, opts, repo_root, worktrees,
                   candidates, listed, clean_candidates, next_item, removed,
                   reported, rmVars, prompts, answer, issued, results,
                   exit_code>>

\* clean.rs 130-133: clean_candidates, in candidate order
KeepClean_All(cands) == cands

KeepClean(cands) ==
    LET NotDirty(wt) == ~IsWorktreeDirty(wt)
    IN  SelectSeq(cands, NotDirty)

\* clean.rs 130-138: keep the candidates that are not dirty
CleanKeepClean ==
    /\ pc = "clean_keep_clean"
    /\ clean_candidates' = KeepClean(candidates)
    /\ IF clean_candidates' = <<>>
       THEN /\ msgs' = msgs \cup {"All candidate worktrees have uncommitted changes. Nothing to remove."}
            /\ Exit(0)
       ELSE /\ msgs' = msgs
            /\ pc' = "clean_confirm"
            /\ UNCHANGED exit_code
    /\ UNCHANGED <<registry, envVars, auxVars, cmd, opts, repo_root, worktrees,
                   candidates, listed, dirty_count, next_item, removed,
                   reported, rmVars, prompts, answer, issued, results>>

\* clean.rs 140, 150: what the confirmation step does for --yes and stdin
CleanConfirmGate_NoRefusal(o, tty) ==
    IF ~o.yes /\ tty THEN "prompt" ELSE "proceed"

CleanConfirmGate(o, tty) ==
    IF ~o.yes /\ tty THEN "prompt"
    ELSE IF ~o.yes THEN "refuse"
    ELSE "proceed"

\* clean.rs 141-149: what follows the prompt's result: Ok(true) goes on to the
\* removals, Ok(false) aborts, Err leaves through the ?
AfterAnswer_AlwaysRemove(a) == "remove"

AfterAnswer(a) ==
    IF a = "yes" THEN "remove"
    ELSE IF a = "no" THEN "abort"
    ELSE "fail"

\* clean.rs 140-153: one confirmation for the batch
CleanConfirm ==
    /\ pc = "clean_confirm"
    /\ IF CleanConfirmGate(opts, stdin_tty) = "prompt"
       THEN /\ prompts' = prompts + 1
            /\ \E a \in {"yes", "no", "error"} :
                  /\ answer' = a
                  /\ IF AfterAnswer(a) = "remove"
                     THEN /\ pc' = "clean_remove"
                          /\ UNCHANGED <<msgs, exit_code>>
                     ELSE IF AfterAnswer(a) = "abort"
                     THEN /\ msgs' = msgs \cup {"Aborted."}
                          /\ Exit(0)
                     ELSE /\ msgs' = msgs
                          /\ Exit(1)
       ELSE IF CleanConfirmGate(opts, stdin_tty) = "refuse"
       THEN /\ msgs' = msgs \cup {"Non-interactive mode requires --yes flag for destructive operations."}
            /\ Exit(1)
            /\ UNCHANGED <<prompts, answer>>
       ELSE /\ pc' = "clean_remove"
            /\ UNCHANGED <<prompts, answer, msgs, exit_code>>
    /\ UNCHANGED <<registry, envVars, auxVars, cmd, opts, repo_root, worktrees,
                   cleanVars, rmVars, issued, results>>

\* The backend's `git worktree remove` on the registry
RemoveFromRegistry(reg, path) ==
    LET Other(wt) == wt.path # path
    IN  SelectSeq(reg, Other)

\* clean.rs 156-174, one iteration: the command either cannot be run ("not_run",
\* the ? returns the error), or runs and succeeds or fails
CleanRemoveItem ==
    /\ pc = "clean_remove"
    /\ next_item <= Len(clean_candidates)
    /\ LET wt == clean_candidates[next_item]
       IN  /\ issued' = Append(issued, [op |-> "worktree remove",
                                        path |-> wt.path, force |-> FALSE])
           /\ \E outcome \in {"ok", "failed", "not_run"} :
                 /\ results' = Append(results, outcome)
                 /\ IF outcome = "not_run"
                    THEN /\ Exit(1)
                         /\ msgs' = msgs \cup {"Failed to remove worktree"}
                         /\ UNCHANGED <<registry, removed, next_item>>
                    ELSE IF outcome = "ok"
                    THEN /\ registry' = RemoveFromRegistry(registry, wt.path)
                         /\ removed' = removed + 1
                         /\ next_item' = next_item + 1
                         /\ UNCHANGED <<msgs, pc, exit_code>>
                    ELSE /\ msgs' = msgs \cup {"Failed to remove"}
                         /\ next_item' = next_item + 1
                         /\ UNCHANGED <<registry, removed, pc, exit_code>>
    /\ UNCHANGED <<envVars, auxVars, cmd, opts, repo_root, worktrees, candidates,
                   listed, dirty_count, clean_candidates, reported, rmVars,
                   prompts, answer>>

\* clean.rs 176-178: report the count
CleanReport ==
    /\ pc = "clean_remove"
    /\ next_item > Len(clean_candidates)
    /\ reported' = <<removed>>
    /\ Exit(0)
    /\ UNCHANGED <<registry, envVars, auxVars, cmd, opts, repo_root, worktrees,
                   candidates, listed, dirty_count, clean_candidates,
                   next_item, removed, rmVars, prompts, answer, issued,
                   results, msgs>>

\* ---- worktree lookup ------------------------------------------------------------
\* worktree.rs find_worktree: the first worktree of the list whose short
\* branch name or whose final path segment equals name; <<>> when none does
FindWorktree(snapshot, name) ==
    LET Match(wt) == wt.branch_short = name \/ FileName(wt.path) = name
        hits == SelectSeq(snapshot, Match)
    IN  IF hits = <<>> THEN <<>> ELSE <<Head(hits)>>

\* The names rm is asked for: every branch, every directory, and a stranger
RmNames ==
    {BranchPool[w] : w \in W} \cup {DirPool[w] : w \in W} \cup {"no-such"}

\* main.rs run(): Commands::Rm, with the repository discovered first
RunRm(name, force, delete_branch, yes) ==
    /\ pc = "idle"
    /\ cmd' = "rm"
    /\ opts' = [NoOpts EXCEPT !.name = name, !.force = force,
                              !.delete_branch = delete_branch, !.yes = yes]
    /\ repo_root' = Discover(start_path, cwd).root
    /\ worktrees' = registry
    /\ pc' = "rm_check"
    /\ UNCHANGED <<registry, envVars, auxVars, cleanVars, rmVars, prompts, answer,
                   issued, results, msgs, exit_code>>

\* ---- rm::execute ---------------------------------------------------------------
\* rm.rs 45, 56: the dirty guard
RmDirtyGuard_YesOverrides(d, o) ==
    IF d /\ ~o.force /\ ~o.yes THEN "refuse"
    ELSE IF d THEN "warn"
    ELSE "pass"

RmDirtyGuard(d, o) ==
    IF d /\ ~o.force THEN "refuse"
    ELSE IF d THEN "warn"
    ELSE "pass"

\* rm.rs 18-61: resolve the target, refuse the current and the main worktree,
\* apply the dirty guard
RmCheck ==
    /\ pc = "rm_check"
    /\ LET found == FindWorktree(worktrees, opts.name)
       IN  /\ target' = found
           /\ IF found = <<>>
              THEN /\ msgs' = msgs \cup {"Worktree not found"}
                   /\ Exit(1)
                   /\ UNCHANGED is_dirty
              ELSE IF found[1].path = cwd
              THEN /\ msgs' = msgs \cup {"Cannot remove the current worktree"}
                   /\ Exit(1)
                   /\ UNCHANGED is_dirty
              ELSE IF IsMainWorktree(found[1], repo_root)
              THEN /\ msgs' = msgs \cup {"Cannot remove the main worktree"}
                   /\ Exit(1)
                   /\ UNCHANGED is_dirty
              ELSE /\ is_dirty' = IsWorktreeDirty(found[1])
                   /\ IF RmDirtyGuard(is_dirty', opts) = "refuse"
                      THEN /\ msgs' = msgs \cup {"Worktree has uncommitted changes"}
                           /\ Exit(1)
                      ELSE /\ msgs' = IF RmDirtyGuard(is_dirty', opts) = "warn"
                                      THEN msgs \cup {"Worktree has uncommitted changes (--force specified)"}
                                      ELSE msgs
                           /\ pc' = "rm_confirm"
                           /\ UNCHANGED exit_code
    /\ UNCHANGED <<registry, envVars, auxVars, cmd, opts, repo_root, worktrees,
                   cleanVars, prompts, answer, issued, results>>

\* rm.rs 63: what the confirmation step does for --yes and stdin; there is
\* no branch for a non-interactive stdin without --yes
RmConfirmGate(o, tty) ==
    IF ~o.yes /\ tty THEN "prompt" ELSE "proceed"

\* rm.rs 63-78: the confirmation
RmConfirm ==
    /\ pc = "rm_confirm"
    /\ IF RmConfirmGate(opts, stdin_tty) = "prompt"
       THEN /\ prompts' = prompts + 1
            /\ \E a \in {"yes", "no", "error"} :
                  /\ answer' = a
                  /\ IF a = "yes"
                     THEN /\ pc' = "rm_remove"
                          /\ UNCHANGED <<msgs, exit_code>>
                     ELSE IF a = "no"
                     THEN /\ msgs' = msgs \cup {"Aborted."}
                          /\ Exit(1)
                     ELSE /\ msgs' = msgs
                          /\ Exit(1)
       ELSE /\ pc' = "rm_remove"
            /\ UNCHANGED <<prompts, answer, msgs, exit_code>>
    /\ UNCHANGED <<registry, envVars, auxVars, cmd, opts, repo_root, worktrees,
                   cleanVars, rmVars, issued, results>>

\* rm.rs 101-102: whether the branch deletion is attempted after the removal
BranchDeletionDue_WithoutFlag(o, wt) == wt.branch_short # None

BranchDeletionDue(o, wt) == o.delete_branch /\ wt.branch_short # None

\* rm.rs 80-99: the removal, forced when --force was given
RmRemove ==
    /\ pc = "rm_remove"
    /\ LET wt == target[1]
       IN  /\ issued' = Append(issued, [op |-> "worktree remove",
                                        path |-> wt.path, force |-> opts.force])
           /\ \E outcome \in {"ok", "failed", "not_run"} :
                 /\ results' = Append(results, outcome)
                 /\ IF outcome = "ok"
                    THEN /\ registry' = RemoveFromRegistry(registry, wt.path)
                         /\ msgs' = msgs \cup {"Removed worktree"}
                         /\ IF BranchDeletionDue(opts, wt)
                            THEN /\ pc' = "rm_delete_branch"
                                 /\ UNCHANGED exit_code
                            ELSE Exit(0)
                    ELSE /\ msgs' = msgs \cup {"Failed to remove worktree"}
                         /\ Exit(1)
                         /\ UNCHANGED registry
    /\ UNCHANGED <<envVars, auxVars, cmd, opts, repo_root, worktrees, cleanVars,
                   rmVars, prompts, answer>>

\* rm.rs 101-126: best-effort deletion of the branch
RmDeleteBranch ==
    /\ pc = "rm_delete_branch"
    /\ issued' = Append(issued, [op |-> "branch -d",
                                 path |-> target[1].path, force |-> FALSE])
    /\ \E outcome \in {"ok", "failed", "not_run"} :
          /\ results' = Append(results, outcome)
          /\ msgs' = IF outcome = "ok"
                     THEN msgs \cup {"Deleted branch"}
                     ELSE msgs \cup {"Could not delete branch"}
    /\ Exit(0)
    /\ UNCHANGED <<registry, envVars, auxVars, cmd, opts, repo_root, worktrees,
                   cleanVars, rmVars, prompts, answer>>

Next ==
    \/ \E merged \in BOOLEAN, gone \in BOOLEAN,
          stale_days \in {<<>>, <<StaleDays>>},
          dry_run \in BOOLEAN, yes \in BOOLEAN :
          RunClean(merged, gone, stale_days, dry_run, yes)
    \/ CleanSelect
    \/ CleanList
    \/ CleanCountDirty
    \/ CleanKeepClean
    \/ CleanConfirm
    \/ CleanRemoveItem
    \/ CleanReport
    \/ \E name \in RmNames, force \in BOOLEAN, delete_branch \in BOOLEAN,
          yes \in BOOLEAN :
          RunRm(name, force, delete_branch, yes)
    \/ RmCheck
    \/ RmConfirm
    \/ RmRemove
    \/ RmDeleteBranch

Spec == Init /\ [][Next]_vars

\* ---- names as characters --------------------------------------------------------
\* The characters of the names the model uses
Chars(s) ==
    CASE s = "repo" -> <<"r", "e", "p", "o">>
      [] s = "hotfix" -> <<"h", "o", "t", "f", "i", "x">>
      [] s = "wt-hotfix" -> <<"w", "t", "-", "h", "o", "t", "f", "i", "x">>
      [] s = "feat-y" -> <<"f", "e", "a", "t", "-", "y">>
      [] s = "feat-z" -> <<"f", "e", "a", "t", "-", "z">>
      [] s = "feat-w" -> <<"f", "e", "a", "t", "-", "w">>
      [] s = "feat/y" -> <<"f", "e", "a", "t", "/", "y">>
      [] s = "feat/z" -> <<"f", "e", "a", "t", "/", "z">>
      [] s = "feat/w" -> <<"f", "e", "a", "t", "/", "w">>
      [] s = "feat-v" -> <<"f", "e", "a", "t", "-", "v">>
      [] s = "feat/v" -> <<"f", "e", "a", "t", "/", "v">>
      [] s = "feat/x" -> <<"f", "e", "a", "t", "/", "x">>
      [] s = "main" -> <<"m", "a", "i", "n">>

Letters ==
    {"a", "b", "c", "d", "e", "f", "g", "h", "i", "j", "k", "l", "m", "n",
     "o", "p", "q", "r", "s", "t", "u", "v", "w", "x", "y", "z", "A", "Z"}
Digits == {"0", "1", "2", "3", "4", "5", "6", "7", "8", "9"}

\* char::is_alphanumeric
IsAlphanumeric(c) == c \in Letters \cup Digits

\* worktree.rs 130-136: the closure slug_from_branch maps over the characters
SlugChar(c) ==
    IF IsAlphanumeric(c) \/ c = "-" \/ c = "_" THEN c ELSE "-"

\* str::trim_matches, one end at a time
RECURSIVE TrimStartMatches(_, _)
TrimStartMatches(s, c) ==
    IF s # <<>> /\ Head(s) = c THEN TrimStartMatches(Tail(s), c) ELSE s

RECURSIVE TrimEndMatches(_, _)
TrimEndMatches(s, c) ==
    IF s # <<>> /\ s[Len(s)] = c
    THEN TrimEndMatches(SubSeq(s, 1, Len(s) - 1), c)
    ELSE s

TrimMatches(s, c) == TrimEndMatches(TrimStartMatches(s, c), c)

\* The mapping without the trim
SlugFromBranch_NoTrim(b) ==
    [i \in 1..Len(b) |-> SlugChar(b[i])]

\* worktree.rs slug_from_branch
SlugFromBranch(b) ==
    TrimMatches([i \in 1..Len(b) |-> SlugChar(b[i])], "-")

\* ---- new::execute --------------------------------------------------------------
\* The directory new worktrees are created in by default, a directory outside
\* it, and the path given with --path for a worktree in that directory
WorkspaceRoot == <<0, 0>>
OutsideDir == <<0, 1>>
OutsidePath == <<0, 2>>

\* Config::worktree_path: the directory called slug in the workspace root
WorktreeDir(slug) ==
    <<CHOOSE k \in 1..Len(DirPool) : Chars(DirPool[k]) = slug, 0>>

\* Path::parent of a target path
Parent(path) == IF path = OutsidePath THEN OutsideDir ELSE WorkspaceRoot

\* Path::exists
PathExists(path, disk) == path \in disk

\* The branch names `new` is asked for
NewNames == {"hotfix", "feat/y", "feat/z", "feat/w"}

\* What `rev-parse --abbrev-ref <base>@{u}` can print: nothing, a
\* remote-tracking branch, a local branch the base tracks
UpstreamPool == {None, "origin/main", "develop"}

\* str::split_once('/') on an upstream name
SplitOnceSlash(s) ==
    IF s = "origin/main" THEN <<"origin", "main">> ELSE <<>>

\* The first pool entry no worktree uses: a directory left on disk, a branch
\* without a worktree
SparePaths == {WorktreePath(NumWorktrees + 1)}
SpareBranches == {BranchPool[NumWorktrees + 1]}

\* The environment before `new` starts
InitNew ==
    /\ \E D \in SUBSET (W \cap DetachedPool) :
          /\ Cardinality(D) <= MaxDetached
          /\ registry = [w \in W |-> Worktree(w, w \in D)]
    /\ dirty = {}
    /\ base \in BaseChoices
    /\ cwd = WorktreePath(1)
    /\ start_path = None
    /\ stdin_tty = TRUE
    /\ pc = "idle"
    /\ cmd = "none"
    /\ opts = NoOpts
    /\ repo_root = None
    /\ worktrees = <<>>
    /\ candidates = <<>>
    /\ listed = <<>>
    /\ dirty_count = 0
    /\ clean_candidates = <<>>
    /\ next_item = 1
    /\ removed = 0
    /\ reported = <<>>
    /\ target = <<>>
    /\ is_dirty = FALSE
    /\ prompts = 0
    /\ answer = "none"
    /\ issued = <<>>
    /\ results = <<>>
    /\ msgs = {}
    /\ exit_code = 0
    /\ \E stray \in SUBSET (SparePaths \cup {OutsideDir}) :
          fs = {WorkspaceRoot} \cup {WorktreePath(w) : w \in W} \cup stray
    /\ \E extra \in SUBSET SpareBranches :
          branches = {BranchPool[w] : w \in W} \cup extra
    /\ upstream \in UpstreamPool
    /\ open_cmd \in {<<>>, <<"code">>}
    /\ new_opts = NoNewOpts
    /\ worktree_path = <<>>
    /\ new_base = None
    /\ existing_wt = <<>>
    /\ branch_already_exists = FALSE
    /\ PureIdle
    /\ RunIdle

coreVars == <<dirty, base, cwd, start_path, stdin_tty, opts, candidates,
              listed, dirty_count, clean_candidates, next_item, removed,
              reported, target, is_dirty, prompts, answer, pureVars, runVars>>

\* main.rs run(): Commands::New, with the repository discovered first
RunNew(name, from, path, print_path, open) ==
    /\ pc = "idle"
    /\ cmd' = "new"
    /\ new_opts' = [name |-> name, from |-> from, path |-> path,
                    print_path |-> print_path, open |-> open]
    /\ repo_root' = Discover(start_path, cwd).root
    /\ pc' = "new_check"
    /\ UNCHANGED <<coreVars, registry, worktrees, issued, results, msgs,
                   exit_code, fs, branches, upstream, open_cmd, worktree_path,
                   new_base, existing_wt, branch_already_exists>>

\* new.rs 23-25: the target path
TargetPath(o) ==
    IF o.path # <<>> THEN o.path[1]
    ELSE WorktreeDir(SlugFromBranch(Chars(o.name)))

\* new.rs 35-37: the first worktree of the list that has the branch checked out
CheckedOutAt(snapshot, branch_name) ==
    LET Has(wt) == wt.branch_short = branch_name
        hits == SelectSeq(snapshot, Has)
    IN  IF hits = <<>> THEN <<>> ELSE <<Head(hits)>>

\* new.rs 27: the test that guards the target path
TargetTaken_DefaultOnly(o, disk) ==
    o.path = <<>> /\ PathExists(TargetPath(o), disk)

TargetTaken(o, disk) == PathExists(TargetPath(o), disk)

\* new.rs 18-45: the target path must be free and the branch checked out
\* nowhere
NewCheck ==
    /\ pc = "new_check"
    /\ worktree_path' = <<TargetPath(new_opts)>>
    /\ IF TargetTaken(new_opts, fs)
       THEN /\ msgs' = msgs \cup {"Directory already exists"}
            /\ Exit(1)
            /\ UNCHANGED <<worktrees, existing_wt>>
       ELSE /\ worktrees' = registry
            /\ existing_wt' = CheckedOutAt(registry, new_opts.name)
            /\ IF existing_wt' # <<>>
               THEN /\ msgs' = msgs \cup {"Branch is already checked out"}
                    /\ Exit(1)
               ELSE /\ pc' = "new_prepare"
                    /\ UNCHANGED <<msgs, exit_code>>
    /\ UNCHANGED <<coreVars, registry, cmd, repo_root, issued, results, fs,
                   branches, upstream, open_cmd, new_opts, new_base,
                   branch_already_exists>>

\* One backend command of `new`, as it is issued
NewCommand(op, base_ref) ==
    [op |-> op, path |-> worktree_path[1], branch |-> new_opts.name,
     base |-> base_ref]

\* The registry once `git worktree add` has succeeded
AddToRegistry(reg, path, branch_name) ==
    Append(reg, [path |-> path, branch_short |-> branch_name,
                 detached |-> FALSE])

\* git.rs branch_exists: `rev-parse --verify refs/heads/<branch>` succeeds
BranchExists_Never(name, heads) == FALSE

BranchExists(name, heads) == name \in heads

\* new.rs 47-54: resolve the base, make the parent directory, look the branch up
NewPrepare ==
    /\ pc = "new_prepare"
    /\ new_base' = IF new_opts.from # None THEN new_opts.from ELSE base
    /\ \E created \in {"ok", "failed"} :
          IF created = "ok"
          THEN /\ fs' = fs \cup {Parent(worktree_path[1])}
               /\ branch_already_exists' = BranchExists(new_opts.name, branches)
               /\ pc' = IF BranchExists(new_opts.name, branches)
                        THEN "new_attach" ELSE "new_fetch"
               /\ UNCHANGED <<msgs, exit_code>>
          ELSE /\ msgs' = msgs \cup {"Failed to create directory"}
               /\ Exit(1)
               /\ UNCHANGED <<fs, branch_already_exists>>
    /\ UNCHANGED <<coreVars, registry, cmd, repo_root, worktrees, issued,
                   results, branches, upstream, open_cmd, new_opts,
                   worktree_path, existing_wt>>

\* new.rs 56-73: the branch exists, attach the new worktree to it
NewAttach ==
    /\ pc = "new_attach"
    /\ issued' = Append(issued, NewCommand("worktree add", None))
    /\ \E outcome \in {"ok", "failed", "not_run"} :
          /\ results' = Append(results, outcome)
          /\ IF outcome = "ok"
             THEN /\ registry' = AddToRegistry(registry, worktree_path[1],
                                               new_opts.name)
                  /\ fs' = fs \cup {worktree_path[1]}
                  /\ msgs' = msgs \cup {"Using existing branch"}
                  /\ pc' = "new_finish"
                  /\ UNCHANGED exit_code
             ELSE /\ msgs' = msgs \cup {"Using existing branch",
                                        "Failed to create worktree"}
                  /\ Exit(1)
                  /\ UNCHANGED <<registry, fs>>
    /\ UNCHANGED <<coreVars, cmd, repo_root, worktrees, branches, upstream,
                   open_cmd, new_opts, worktree_path, new_base, existing_wt,
                   branch_already_exists>>

\* new.rs 76-90: the reference the new branch starts from, given the resolved
\* base b and what get_upstream printed for it
StartPoint_Base(b, up) == b

StartPoint(b, up) ==
    IF up # None /\ SplitOnceSlash(up) # <<>> THEN up ELSE b

\* new.rs 75-90: fetch the base's upstream and branch from it
NewFetch ==
    /\ pc = "new_fetch"
    /\ IF upstream # None /\ SplitOnceSlash(upstream) # <<>>
       THEN /\ issued' = Append(issued, NewCommand("fetch", upstream))
            /\ \E outcome \in {"ok", "failed", "not_run"} :
                  results' = Append(results, outcome)
       ELSE UNCHANGED <<issued, results>>
    /\ new_base' = StartPoint(new_base, upstream)
    /\ pc' = "new_add"
    /\ UNCHANGED <<coreVars, registry, cmd, repo_root, worktrees, msgs,
                   exit_code, fs, branches, upstream, open_cmd, new_opts,
                   worktree_path, existing_wt, branch_already_exists>>

\* new.rs 92-113: create the branch and its worktree
NewAdd ==
    /\ pc = "new_add"
    /\ issued' = Append(issued, NewCommand("worktree add -b", new_base))
    /\ \E outcome \in {"ok", "failed", "not_run"} :
          /\ results' = Append(results, outcome)
          /\ IF outcome = "ok"
             THEN /\ registry' = AddToRegistry(registry, worktree_path[1],
                                               new_opts.name)
                  /\ branches' = branches \cup {new_opts.name}
                  /\ fs' = fs \cup {worktree_path[1]}
                  /\ pc' = "new_push"
                  /\ UNCHANGED <<msgs, exit_code>>
             ELSE /\ msgs' = msgs \cup {"Failed to create worktree"}
                  /\ Exit(1)
                  /\ UNCHANGED <<registry, branches, fs>>
    /\ UNCHANGED <<coreVars, cmd, repo_root, worktrees, upstream, open_cmd,
                   new_opts, worktree_path, new_base, existing_wt,
                   branch_already_exists>>

\* new.rs 122-136: where the process goes after the push, whatever came of it
AfterPush_FailureIsFatal(outcome) ==
    IF outcome = "ok" THEN "new_finish" ELSE "done"

AfterPush(outcome) == "new_finish"

\* new.rs 115-136: publish the new branch, best effort
NewPush ==
    /\ pc = "new_push"
    /\ issued' = Append(issued, NewCommand("push", None))
    /\ \E outcome \in {"ok", "failed", "not_run"} :
          /\ results' = Append(results, outcome)
          /\ msgs' = msgs \cup {IF outcome = "ok"
                                THEN "Upstream set successfully"
                                ELSE IF outcome = "failed"
                                THEN "Note: Could not set upstream"
                                ELSE "Note: Could not run git push to set upstream"}
          /\ IF AfterPush(outcome) = "done"
             THEN Exit(1)
             ELSE /\ pc' = AfterPush(outcome)
                  /\ UNCHANGED exit_code
    /\ UNCHANGED <<coreVars, registry, cmd, repo_root, worktrees, fs, branches,
                   upstream, open_cmd, new_opts, worktree_path, new_base,
                   existing_wt, branch_already_exists>>

\* new.rs 139-151: print the path, spawn the open command, return Ok
NewFinish ==
    /\ pc = "new_finish"
    /\ msgs' = msgs \cup {IF new_opts.print_path
                          THEN "<path>" ELSE "Created worktree at <path>"}
    /\ IF new_opts.open /\ open_cmd # <<>>
       THEN /\ issued' = Append(issued, NewCommand("open", None))
            /\ \E outcome \in {"ok", "not_run"} :
                  results' = Append(results, outcome)
       ELSE UNCHANGED <<issued, results>>
    /\ Exit(0)
    /\ UNCHANGED <<coreVars, registry, cmd, repo_root, worktrees, fs, branches,
                   upstream, open_cmd, new_opts, worktree_path, new_base,
                   existing_wt, branch_already_exists>>

NextNew ==
    \/ \E name \in NewNames, from \in {None, "feat/x"},
          path \in {<<>>, <<WorktreePath(2)>>, <<OutsidePath>>},
          print_path \in BOOLEAN, open \in BOOLEAN :
          RunNew(name, from, path, print_path, open)
    \/ NewCheck
    \/ NewPrepare
    \/ NewAttach
    \/ NewFetch
    \/ NewAdd
    \/ NewPush
    \/ NewFinish

SpecNew == InitNew /\ [][NextNew]_vars

\* ---- the library functions on their own -------------------------------------------
\* No command runs: the state of clean, rm and new keeps its start values
CommandsIdle ==
    /\ registry = <<>>
    /\ dirty = {}
    /\ base = "main"
    /\ cwd = WorktreePath(1)
    /\ start_path = None
    /\ stdin_tty = TRUE
    /\ cmd = "none"
    /\ opts = NoOpts
    /\ repo_root = None
    /\ candidates = <<>>
    /\ listed = <<>>
    /\ dirty_count = 0
    /\ clean_candidates = <<>>
    /\ next_item = 1
    /\ removed = 0
    /\ reported = <<>>
    /\ target = <<>>
    /\ is_dirty = FALSE
    /\ prompts = 0
    /\ answer = "none"
    /\ issued = <<>>
    /\ results = <<>>
    /\ msgs = {}
    /\ exit_code = 0
    /\ NewIdle
    /\ RunIdle

commandVars == <<registry, envVars, cmd, opts, repo_root, cleanVars, rmVars,
                 prompts, answer, issued, results, msgs, exit_code, newVars,
                 runVars>>

\* ---- worktree::parse_worktree_list ------------------------------------------------
MaxLines == 4

\* A line is the sequence of its space-separated words; the empty line is <<>>
LinePool ==
    {<<>>,
     <<"worktree", "/a">>,
     <<"worktree", "/b">>,
     <<"HEAD", "abc123">>,
     <<"branch", "refs/heads/main">>,
     <<"detached">>,
     <<"bare">>,
     <<"frobnicate", "x">>}

\* The outputs the parser is run on
Outputs == UNION {[1..n -> LinePool] : n \in 0..MaxLines}

\* str::split_once(' '): <<key, value>>, or <<>> when the line has no space
SplitOnceSpace(line) ==
    IF Len(line) >= 2 THEN <<Head(line), Tail(line)>> ELSE <<>>

\* WorktreeBuilder::default
DefaultBuilder ==
    [path |-> <<>>, head |-> <<>>, branch |-> <<>>, detached |-> FALSE,
     locked |-> FALSE, prunable |-> FALSE, bare |-> FALSE]

\* str::strip_prefix("refs/heads/").unwrap_or(b)
StripRefsHeads(b) ==
    IF b = <<"refs/heads/main">> THEN <<"main">> ELSE b

\* WorktreeBuilder::build: <<worktree>>, or <<>> for None
Build(b) ==
    IF b.path = <<>> THEN <<>>
    ELSE IF b.bare THEN <<>>
    ELSE <<[path |-> b.path[1],
            head |-> IF b.head = <<>> THEN <<>> ELSE b.head[1],
            branch |-> b.branch,
            branch_short |-> IF b.branch = <<>> THEN <<>>
                             ELSE <<StripRefsHeads(b.branch[1])>>,
            detached |-> b.detached,
            locked |-> b.locked,
            prunable |-> b.prunable]>>

\* worktree.rs 36-40 and 67-71: push what the builder builds, if anything
Flush(list, cur) ==
    IF cur = <<>> THEN list ELSE list \o Build(cur[1])

\* worktree.rs 44-64: one non-empty line applied to the builder
ApplyLine(b, line) ==
    LET kv == SplitOnceSpace(line)
    IN  IF kv # <<>>
        THEN CASE kv[1] = "worktree" -> [b EXCEPT !.path = <<kv[2]>>]
               [] kv[1] = "HEAD" -> [b EXCEPT !.head = <<kv[2]>>]
               [] kv[1] = "branch" -> [b EXCEPT !.branch = <<kv[2]>>]
               [] kv[1] = "detached" -> [b EXCEPT !.detached = TRUE]
               [] kv[1] = "locked" -> [b EXCEPT !.locked = TRUE]
               [] kv[1] = "prunable" -> [b EXCEPT !.prunable = TRUE]
               [] OTHER -> b
        ELSE CASE line = <<"detached">> -> [b EXCEPT !.detached = TRUE]
               [] line = <<"locked">> -> [b EXCEPT !.locked = TRUE]
               [] line = <<"prunable">> -> [b EXCEPT !.prunable = TRUE]
               [] line = <<"bare">> -> [b EXCEPT !.bare = TRUE]
               [] OTHER -> b

InitParse ==
    /\ CommandsIdle
    /\ SlugIdle /\ SortIdle /\ StatusIdle
    /\ pc = "parse"
    /\ worktrees = <<>>
    /\ output \in Outputs
    /\ line_no = 1
    /\ builder = <<>>

\* worktree.rs 34-65: one turn of the loop over the lines
ParseLine ==
    /\ pc = "parse"
    /\ line_no <= Len(output)
    /\ LET line == output[line_no]
       IN  IF line = <<>>
           THEN /\ worktrees' = Flush(worktrees, builder)
                /\ builder' = <<>>
           ELSE /\ builder' = <<ApplyLine(IF builder = <<>>
                                          THEN DefaultBuilder
                                          ELSE builder[1], line)>>
                /\ UNCHANGED worktrees
    /\ line_no' = line_no + 1
    /\ UNCHANGED <<commandVars, pc, output, slugVars, sortVars, statusVars>>

\* worktree.rs 67-73: the last record is flushed and the list returned
FinalFlush_Dropped(list, cur) == list

FinalFlush(list, cur) == Flush(list, cur)

ParseEnd ==
    /\ pc = "parse"
    /\ line_no > Len(output)
    /\ worktrees' = FinalFlush(worktrees, builder)
    /\ pc' = "parsed"
    /\ UNCHANGED <<commandVars, output, line_no, builder, slugVars, sortVars,
                   statusVars>>

NextParse == ParseLine \/ ParseEnd

SpecParse == InitParse /\ [][NextParse]_vars

\* ---- worktree::slug_from_branch ---------------------------------------------------
MaxBranchLen == 4

\* The characters branch names are made of here: a letter of either case, a
\* digit, the two characters the slug keeps, and three it replaces
BranchAlphabet == {"a", "Z", "7", "-", "_", "/", " ", "."}

BranchNames == UNION {[1..n -> BranchAlphabet] : n \in 0..MaxBranchLen}

InitSlug ==
    /\ CommandsIdle
    /\ ParseIdle /\ SortIdle /\ StatusIdle
    /\ pc = "slug"
    /\ worktrees = <<>>
    /\ branch \in BranchNames
    /\ slug_out = <<>>
    /\ slug_again = <<>>

\* new.rs 21: let slug = slug_from_branch(branch_name)
Slugify ==
    /\ pc = "slug"
    /\ slug_out' = <<SlugFromBranch(branch)>>
    /\ pc' = "slugged"
    /\ UNCHANGED <<commandVars, worktrees, branch, slug_again, parseVars,
                   sortVars, statusVars>>

\* worktree.rs 211: slug_from_branch applied to a slug
SlugifyAgain ==
    /\ pc = "slugged"
    /\ slug_again' = <<SlugFromBranch(slug_out[1])>>
    /\ pc' = "reslugged"
    /\ UNCHANGED <<commandVars, worktrees, branch, slug_out, parseVars,
                   sortVars, statusVars>>

NextSlug == Slugify \/ SlugifyAgain

SpecSlug == InitSlug /\ [][NextSlug]_vars

\* ---- list::sort_worktrees ---------------------------------------------------------
MaxRows == 3

\* The characters of the names in code point order
CodePoints ==
    <<"-", "/", "0", "7", "9", "A", "Z", "_", "a", "b", "c", "d", "e", "f",
      "g", "h", "i", "j", "k", "l", "m", "n", "o", "p", "q", "r", "s", "t",
      "u", "v", "w", "x", "y", "z">>

CodePoint(c) == CHOOSE i \in 1..Len(CodePoints) : CodePoints[i] = c

\* str::cmp: lexicographic by code point, a proper prefix first
RECURSIVE StrCmp(_, _)
StrCmp(a, b) ==
    IF a = <<>> /\ b = <<>> THEN "Equal"
    ELSE IF a = <<>> THEN "Less"
    ELSE IF b = <<>> THEN "Greater"
    ELSE IF CodePoint(Head(a)) < CodePoint(Head(b)) THEN "Less"
    ELSE IF CodePoint(Head(a)) > CodePoint(Head(b)) THEN "Greater"
    ELSE StrCmp(Tail(a), Tail(b))

\* bool::cmp: false before true
BoolCmp(x, y) ==
    IF x = y THEN "Equal" ELSE IF y THEN "Less" ELSE "Greater"

\* WorktreeStatus::is_dirty
IsDirty(status) == status.dirty_count > 0

\* list.rs 26-42: the closure given to sort_by
Compare_DirtyLast(a, b, cp) ==
    IF (a.wt.path = cp) # (b.wt.path = cp)
    THEN BoolCmp(b.wt.path = cp, a.wt.path = cp)
    ELSE IF IsDirty(a.status) # IsDirty(b.status)
    THEN BoolCmp(IsDirty(a.status), IsDirty(b.status))
    ELSE StrCmp(Chars(Name(a.wt)), Chars(Name(b.wt)))

Compare(a, b, cp) ==
    IF (a.wt.path = cp) # (b.wt.path = cp)
    THEN BoolCmp(b.wt.path = cp, a.wt.path = cp)
    ELSE IF IsDirty(a.status) # IsDirty(b.status)
    THEN BoolCmp(IsDirty(b.status), IsDirty(a.status))
    ELSE StrCmp(Chars(Name(a.wt)), Chars(Name(b.wt)))

\* slice::sort_by is stable: a row goes behind every row that does not
\* compare greater
InsertRow(done, row, cp) ==
    LET after == {i \in 1..Len(done) : Compare(done[i], row, cp) = "Greater"}
        k == IF after = {} THEN Len(done) + 1
             ELSE CHOOSE i \in after : \A j \in after : i <= j
    IN  SubSeq(done, 1, k - 1) \o <<row>> \o SubSeq(done, k, Len(done))

RECURSIVE SortPrefix(_, _, _)
SortPrefix(list, n, cp) ==
    IF n = 0 THEN <<>>
    ELSE InsertRow(SortPrefix(list, n - 1, cp), list[n], cp)

\* list.rs sort_worktrees
SortWorktrees(list, cp) == SortPrefix(list, Len(list), cp)

\* The rows of a snapshot in any order: each worktree once at most
RowOrders ==
    {o \in UNION {[1..n -> W] : n \in 0..MaxRows} :
        \A i, j \in DOMAIN o : i # j => o[i] # o[j]}

InitSort ==
    /\ CommandsIdle
    /\ ParseIdle /\ SlugIdle /\ StatusIdle
    /\ pc = "list"
    /\ worktrees = <<>>
    /\ \E o \in RowOrders, D \in SUBSET W :
          /\ Cardinality(D) <= MaxDetached
          /\ \E counts \in [DOMAIN o -> {0, 2}] :
                rows = [i \in DOMAIN o |->
                           [wt |-> Worktree(o[i], o[i] \in D),
                            status |-> [dirty_count |-> counts[i]]]]
    /\ list_current_path \in {<<w, d>> : w \in 1..CwdWorktrees, d \in 0..1}
    /\ sorted = <<>>

\* list.rs 15: let sorted = sort_worktrees(statuses, &current_path)
ListSort ==
    /\ pc = "list"
    /\ sorted' = <<SortWorktrees(rows, list_current_path)>>
    /\ pc' = "sorted"
    /\ UNCHANGED <<commandVars, worktrees, rows, list_current_path, parseVars,
                   slugVars, statusVars>>

NextSort == ListSort

SpecSort == InitSort /\ [][NextSort]_vars

\* ---- status::get_all_statuses -----------------------------------------------------
MaxBatch == 3

\* WorktreeStatus::default
DefaultStatus ==
    [dirty_count |-> 0, upstream |-> None, ahead |-> <<>>, behind |-> <<>>]

\* What git2 answers for one worktree: Repository::open, statuses() (<<n>>,
\* or <<>> for Err), head() ("branch", "not_branch" or "err"), shorthand(),
\* find_branch(), upstream() with its name (None for Err), whether name()
\* yields a string (it does not on an error or a name that is not UTF-8), the
\* two targets, graph_ahead_behind() (<<ahead, behind>>, or <<>> for Err)
FactPool ==
    {[open |-> FALSE, statuses |-> <<2>>, head |-> "branch",
      shorthand |-> TRUE, find_branch |-> TRUE, upstream |-> "origin/main",
      named |-> TRUE, targets |-> TRUE, graph |-> <<1, 0>>],
     [open |-> TRUE, statuses |-> <<>>, head |-> "err",
      shorthand |-> TRUE, find_branch |-> TRUE, upstream |-> None,
      named |-> TRUE, targets |-> TRUE, graph |-> <<>>],
     [open |-> TRUE, statuses |-> <<2>>, head |-> "branch",
      shorthand |-> TRUE, find_branch |-> TRUE, upstream |-> None,
      named |-> TRUE, targets |-> TRUE, graph |-> <<>>],
     [open |-> TRUE, statuses |-> <<0>>, head |-> "branch",
      shorthand |-> TRUE, find_branch |-> TRUE, upstream |-> "origin/main",
      named |-> TRUE, targets |-> TRUE, graph |-> <<1, 2>>],
     [open |-> TRUE, statuses |-> <<>>, head |-> "branch",
      shorthand |-> TRUE, find_branch |-> TRUE, upstream |-> "origin/main",
      named |-> TRUE, targets |-> TRUE, graph |-> <<>>],
     [open |-> TRUE, statuses |-> <<1>>, head |-> "branch",
      shorthand |-> TRUE, find_branch |-> TRUE, upstream |-> "origin/main",
      named |-> TRUE, targets |-> FALSE, graph |-> <<0, 0>>],
     [open |-> TRUE, statuses |-> <<0>>, head |-> "branch",
      shorthand |-> TRUE, find_branch |-> TRUE, upstream |-> "origin/main",
      named |-> FALSE, targets |-> TRUE, graph |-> <<2, 1>>]}

\* status.rs get_dirty_count
GetDirtyCount(f) == IF f.statuses = <<>> THEN 0 ELSE f.statuses[1]

\* status.rs get_ahead_behind: <<upstream, ahead, behind>>
GetAheadBehind(wt, f) ==
    IF wt.detached THEN <<None, <<>>, <<>>>>
    ELSE IF f.head = "err" THEN <<None, <<>>, <<>>>>
    ELSE IF f.head # "branch" THEN <<None, <<>>, <<>>>>
    ELSE IF ~f.shorthand THEN <<None, <<>>, <<>>>>
    ELSE IF ~f.find_branch THEN <<None, <<>>, <<>>>>
    ELSE IF f.upstream = None THEN <<None, <<>>, <<>>>>
    ELSE LET upstream_name == IF f.named THEN f.upstream ELSE None
         IN  IF ~f.targets THEN <<upstream_name, <<>>, <<>>>>
             ELSE IF f.graph = <<>> THEN <<upstream_name, <<>>, <<>>>>
             ELSE <<upstream_name, <<f.graph[1]>>, <<f.graph[2]>>>>

\* status.rs get_worktree_status
GetWorktreeStatus_OpenUnchecked(wt, f) ==
    LET ab == GetAheadBehind(wt, f)
    IN  [dirty_count |-> GetDirtyCount(f), upstream |-> ab[1],
         ahead |-> ab[2], behind |-> ab[3]]

GetWorktreeStatus(wt, f) ==
    IF ~f.open THEN DefaultStatus
    ELSE LET ab == GetAheadBehind(wt, f)
         IN  [dirty_count |-> GetDirtyCount(f), upstream |-> ab[1],
              ahead |-> ab[2], behind |-> ab[3]]

InitStatus ==
    /\ CommandsIdle
    /\ ParseIdle /\ SlugIdle /\ SortIdle
    /\ pc = "statuses"
    /\ \E n \in 0..MaxBatch, D \in SUBSET DetachedPool :
          /\ Cardinality(D) <= MaxDetached
          /\ D \subseteq 1..n
          /\ worktrees = [i \in 1..n |-> Worktree(i, i \in D)]
          /\ backend \in [1..n -> FactPool]
          /\ pending = 1..n
          /\ slots = [i \in 1..n |-> <<>>]
    /\ finished = <<>>
    /\ statuses = <<>>

\* status.rs 116-119: a worker maps one item; the workers of par_iter take
\* the items in any order
StatusWorker(i) ==
    /\ pc = "statuses"
    /\ i \in pending
    /\ slots' = [slots EXCEPT
                    ![i] = <<[wt |-> worktrees[i],
                              status |-> GetWorktreeStatus(worktrees[i],
                                                           backend[i])]>>]
    /\ pending' = pending \ {i}
    /\ finished' = Append(finished, i)
    /\ UNCHANGED <<commandVars, pc, worktrees, backend, statuses, parseVars,
                   slugVars, sortVars>>

\* status.rs 120: collect() of an indexed parallel iterator fills the vector
\* by item position
Collect_AsFinished(sl, fin) == [k \in 1..Len(fin) |-> sl[fin[k]][1]]

Collect(sl, fin) == [i \in 1..Len(sl) |-> sl[i][1]]

\* status.rs 113-121: every item is mapped, the vector is returned
StatusCollect ==
    /\ pc = "statuses"
    /\ pending = {}
    /\ statuses' = <<Collect(slots, finished)>>
    /\ pc' = "collected"
    /\ UNCHANGED <<commandVars, worktrees, backend, pending, slots, finished,
                   parseVars, slugVars, sortVars>>

NextStatus ==
    \/ \E i \in 1..MaxBatch : StatusWorker(i)
    \/ StatusCollect

SpecStatus == InitStatus /\ [][NextStatus]_vars

\* ---- clean against a backend whose answers are known ---------------------------
\* The process before main runs: nothing computed, asked, issued or printed
ProcessIdle ==
    /\ pc = "idle"
    /\ cmd = "none"
    /\ opts = NoOpts
    /\ repo_root = None
    /\ worktrees = <<>>
    /\ candidates = <<>>
    /\ listed = <<>>
    /\ dirty_count = 0
    /\ clean_candidates = <<>>
    /\ next_item = 1
    /\ removed = 0
    /\ reported = <<>>
    /\ target = <<>>
    /\ is_dirty = FALSE
    /\ prompts = 0
    /\ answer = "none"
    /\ issued = <<>>
    /\ results = <<>>
    /\ msgs = {}
    /\ exit_code = 0

\* The worktrees the backend is asked about: every checkout but the original
\* one, which holds the base branch
AnswerPaths == {WorktreePath(w) : w \in W \ {1}}

\* The worktrees that may be dirty when clean starts
FilterDirtyPool == {2, 4}

\* The repository, the backend's answers and the environment before
\* `git workty clean` starts
InitFilter ==
    /\ \E D \in SUBSET (W \cap DetachedPool) :
          /\ Cardinality(D) <= MaxDetached
          /\ registry = [w \in W |-> Worktree(w, w \in D)]
    /\ \E X \in SUBSET (W \cap FilterDirtyPool) :
          /\ Cardinality(X) <= MaxDirty
          /\ dirty = {WorktreePath(w) : w \in X}
    /\ base = "main"
    /\ cwd \in {WorktreePath(w) : w \in 1..CwdWorktrees}
    /\ start_path = None
    /\ stdin_tty = FALSE
    /\ answers \in [AnswerPaths -> BackendFacts]
    /\ selection = <<>>
    /\ printed = <<>>
    /\ racers = <<>>
    /\ ProcessIdle
    /\ NewIdle
    /\ PureIdle

\* clean.rs 24-105 with the backend's answers read from its state
CleanSelectKnown == CleanSelectWith(answers)

NextFilter ==
    \/ \E merged \in BOOLEAN, gone \in BOOLEAN,
          stale_days \in {<<>>, <<StaleDays>>} :
          RunClean(merged, gone, stale_days, FALSE, TRUE)
    \/ CleanSelectKnown
    \/ CleanList
    \/ CleanCountDirty
    \/ CleanKeepClean
    \/ CleanConfirm
    \/ CleanRemoveItem
    \/ CleanReport

SpecFilter == InitFilter /\ [][NextFilter]_vars

\* ---- pick::execute ---------------------------------------------------------------
\* The repository, what git2 answers for its worktrees, and the terminal
\* before `git workty pick` starts
InitPick ==
    /\ \E n \in 0..MaxBatch, D \in SUBSET DetachedPool :
          /\ Cardinality(D) <= MaxDetached
          /\ D \subseteq 1..n
          /\ registry = [w \in 1..n |-> Worktree(w, w \in D)]
          /\ backend \in [1..n -> FactPool]
    /\ dirty = {}
    /\ base = "main"
    /\ cwd = WorktreePath(1)
    /\ start_path = None
    /\ stdin_tty \in BOOLEAN
    /\ ProcessIdle
    /\ NewIdle
    /\ ParseIdle /\ SlugIdle /\ SortIdle
    /\ pending = {}
    /\ slots = <<>>
    /\ finished = <<>>
    /\ statuses = <<>>
    /\ RunIdle

\* main.rs run(): Commands::Pick, with the repository discovered first
RunPick ==
    /\ pc = "idle"
    /\ cmd' = "pick"
    /\ repo_root' = Discover(start_path, cwd).root
    /\ pc' = "pick_start"
    /\ UNCHANGED <<registry, envVars, opts, worktrees, cleanVars, rmVars,
                   prompts, answer, issued, results, msgs, exit_code, auxVars>>

\* pick.rs 10-24: refuse without a terminal, list the worktrees, refuse an
\* empty list, and hand the list to get_all_statuses
PickStart ==
    /\ pc = "pick_start"
    /\ IF ~stdin_tty
       THEN /\ msgs' = msgs \cup {"Cannot run interactive picker in non-TTY environment"}
            /\ Exit(1)
            /\ UNCHANGED <<worktrees, pending, slots>>
       ELSE IF registry = <<>>
       THEN /\ msgs' = msgs \cup {"No worktrees found"}
            /\ Exit(1)
            /\ worktrees' = registry
            /\ UNCHANGED <<pending, slots>>
       ELSE /\ worktrees' = registry
            /\ pending' = DOMAIN registry
            /\ slots' = [i \in DOMAIN registry |-> <<>>]
            /\ pc' = "statuses"
            /\ UNCHANGED <<msgs, exit_code>>
    /\ UNCHANGED <<registry, envVars, cmd, opts, repo_root, cleanVars, rmVars,
                   prompts, answer, issued, results, newVars, runVars,
                   parseVars, slugVars, sortVars, backend, finished, statuses>>

\* pick.rs 27-49: one item per (worktree, status) pair, in the pairs' order,
\* showing the worktree's name and path
Items(pairs) ==
    [i \in DOMAIN pairs |->
        [name |-> Name(pairs[i].wt),
         dirty_count |-> pairs[i].status.dirty_count,
         path |-> pairs[i].wt.path]]

\* pick.rs 55-65 and main.rs 207-210: the exit code for what interact_opt
\* returned
PickExit_CancelFails(result) == IF result = "selected" THEN 0 ELSE 1

PickExit(result) ==
    IF result = "selected" THEN 0
    ELSE IF result = "cancelled" THEN 130
    ELSE 1

\* pick.rs 51-65: the prompt, and what follows from the user's answer
PickSelect ==
    /\ pc = "collected"
    /\ cmd = "pick"
    /\ prompts' = prompts + 1
    /\ \/ \E idx \in DOMAIN Items(statuses[1]) :
             /\ answer' = "selected"
             /\ selection' = <<idx>>
             /\ printed' = Append(printed, statuses[1][idx].wt.path)
       \/ /\ answer' = "cancelled"
          /\ UNCHANGED <<selection, printed>>
       \/ /\ answer' = "error"
          /\ UNCHANGED <<selection, printed>>
    /\ Exit(PickExit(answer'))
    /\ UNCHANGED <<registry, envVars, cmd, opts, repo_root, worktrees,
                   cleanVars, rmVars, issued, results, msgs, newVars, answers,
                   racers, pureVars>>

NextPick ==
    \/ RunPick
    \/ PickStart
    \/ \E i \in 1..MaxBatch : StatusWorker(i)
    \/ StatusCollect
    \/ PickSelect

SpecPick == InitPick /\ [][NextPick]_vars

\* ---- two `new` processes on one repository -------------------------------------
Racers == {1, 2}

\* The branch names the two processes are asked for: not checked out anywhere
RaceNames == {BranchPool[NumWorktrees + 1], BranchPool[NumWorktrees + 2]}

\* The repository and the disk before the two processes start; each process
\* has parsed its options
InitRace ==
    /\ \E D \in SUBSET (W \cap DetachedPool) :
          /\ Cardinality(D) <= MaxDetached
          /\ registry = [w \in W |-> Worktree(w, w \in D)]
    /\ dirty = {}
    /\ base = "main"
    /\ cwd = WorktreePath(1)
    /\ start_path = None
    /\ stdin_tty = TRUE
    /\ ProcessIdle
    /\ fs = {WorkspaceRoot} \cup {WorktreePath(w) : w \in W}
    /\ \E extra \in SUBSET RaceNames :
          branches = {BranchPool[w] : w \in W} \cup extra
    /\ upstream = None
    /\ open_cmd = <<>>
    /\ new_opts = NoNewOpts
    /\ worktree_path = <<>>
    /\ new_base = None
    /\ existing_wt = <<>>
    /\ branch_already_exists = FALSE
    /\ PureIdle
    /\ answers = <<>>
    /\ selection = <<>>
    /\ printed = <<>>
    /\ \E names \in [Racers -> RaceNames],
          paths \in [Racers -> {<<>>, <<OutsidePath>>}] :
          racers = [p \in Racers |->
                       [pc |-> "check",
                        o |-> [NoNewOpts EXCEPT !.name = names[p],
                                                !.path = paths[p]],
                        worktree_path |-> TargetPath([NoNewOpts EXCEPT
                                                        !.name = names[p],
                                                        !.path = paths[p]]),
                        branch_already_exists |-> FALSE]]

raceShared == <<registry, fs, branches, issued, results>>

raceFixed == <<dirty, base, cwd, start_path, stdin_tty, pc, cmd, opts,
               repo_root, worktrees, cleanVars, rmVars, prompts, answer, msgs,
               exit_code, upstream, open_cmd, new_opts, worktree_path,
               new_base, existing_wt, branch_already_exists, pureVars,
               answers, selection, printed>>

\* new.rs 27-45 in process p: the target path must be free and the branch
\* checked out nowhere
RaceCheck(p) ==
    /\ racers[p].pc = "check"
    /\ racers' = [racers EXCEPT
                    ![p].pc = IF TargetTaken(racers[p].o, fs) THEN "failed"
                              ELSE IF CheckedOutAt(registry, racers[p].o.name) # <<>>
                              THEN "failed"
                              ELSE "prepare"]
    /\ UNCHANGED <<raceShared, raceFixed>>

\* new.rs 49-54 in process p: make the parent directory, look the branch up
RacePrepare(p) ==
    /\ racers[p].pc = "prepare"
    /\ fs' = fs \cup {Parent(racers[p].worktree_path)}
    /\ racers' = [racers EXCEPT
                    ![p].branch_already_exists = (racers[p].o.name \in branches),
                    ![p].pc = "add"]
    /\ UNCHANGED <<registry, branches, issued, results, raceFixed>>

\* `git worktree add [-b]` as the backend runs it: it refuses a path that
\* exists, a branch that is checked out in a worktree, and with -b a branch
\* name that is taken
AddRefused_Never(path, branch_name, new_branch, disk, reg, heads) == FALSE

AddRefused(path, branch_name, new_branch, disk, reg, heads) ==
    \/ PathExists(path, disk)
    \/ CheckedOutAt(reg, branch_name) # <<>>
    \/ new_branch /\ branch_name \in heads

\* new.rs 56-113 in process p: attach to the branch or create it, at the
\* target path
RaceAdd(p) ==
    /\ racers[p].pc = "add"
    /\ LET r == racers[p]
       IN  /\ issued' = Append(issued,
                               [op |-> IF r.branch_already_exists
                                       THEN "worktree add" ELSE "worktree add -b",
                                path |-> r.worktree_path,
                                branch |-> r.o.name,
                                by |-> p])
           /\ \E outcome \in
                 IF AddRefused(r.worktree_path, r.o.name,
                               ~r.branch_already_exists, fs, registry, branches)
                 THEN {"failed"} ELSE {"ok", "failed"} :
                 /\ results' = Append(results, outcome)
                 /\ IF outcome = "ok"
                    THEN /\ registry' = AddToRegistry(registry, r.worktree_path,
                                                      r.o.name)
                         /\ branches' = branches \cup {r.o.name}
                         /\ fs' = fs \cup {r.worktree_path}
                         /\ racers' = [racers EXCEPT ![p].pc = "created"]
                    ELSE /\ racers' = [racers EXCEPT ![p].pc = "failed"]
                         /\ UNCHANGED <<registry, branches, fs>>
    /\ UNCHANGED raceFixed

NextRace == \E p \in Racers : RaceCheck(p) \/ RacePrepare(p) \/ RaceAdd(p)

SpecRace == InitRace /\ [][NextRace]_vars

\* ---- pick and clean with their status workers -----------------------------------
\* What git2 answers in the runs that end at a prompt: a worktree it cannot
\* open and one it reads in full
PromptFacts ==
    {f \in FactPool :
        \/ ~f.open
        \/ /\ f.statuses # <<>> /\ f.named /\ f.targets /\ f.graph # <<>>
           /\ f.statuses[1] = 0}

\* The repository, what git2 answers for its worktrees, and the terminal
\* before `git workty pick` or `git workty clean` starts
InitPrompt ==
    /\ \E n \in 0..MaxBatch, D \in SUBSET DetachedPool :
          /\ Cardinality(D) <= MaxDetached
          /\ D \subseteq 1..n
          /\ registry = [w \in 1..n |-> Worktree(w, w \in D)]
          /\ backend \in [1..n -> PromptFacts]
    /\ dirty = {}
    /\ base = "main"
    /\ cwd = WorktreePath(1)
    /\ start_path = None
    /\ stdin_tty \in BOOLEAN
    /\ ProcessIdle
    /\ NewIdle
    /\ ParseIdle /\ SlugIdle /\ SortIdle
    /\ pending = {}
    /\ slots = <<>>
    /\ finished = <<>>
    /\ statuses = <<>>
    /\ RunIdle

\* clean.rs 25-29: where execute goes once the worktrees are listed: into
\* get_all_statuses when a filter needs the statuses, else on to the filter
AfterList_NoWait(o) == "clean_select"

AfterList(o) == IF StatusesGathered(o) THEN "statuses" ELSE "clean_select"

\* main.rs run(): Commands::Clean, and clean.rs 20-29: list the worktrees and
\* hand them to get_all_statuses when --gone or --stale was given
RunCleanStatuses(merged, gone, stale_days, dry_run, yes) ==
    /\ pc = "idle"
    /\ cmd' = "clean"
    /\ opts' = [NoOpts EXCEPT !.merged = merged, !.gone = gone,
                              !.stale_days = stale_days,
                              !.dry_run = dry_run, !.yes = yes]
    /\ repo_root' = Discover(start_path, cwd).root
    /\ worktrees' = registry
    /\ IF StatusesGathered(opts')
       THEN /\ pending' = DOMAIN registry
            /\ slots' = [i \in DOMAIN registry |-> <<>>]
       ELSE UNCHANGED <<pending, slots>>
    /\ pc' = AfterList(opts')
    /\ UNCHANGED <<registry, envVars, cleanVars, rmVars, prompts, answer,
                   issued, results, msgs, exit_code, newVars, runVars,
                   parseVars, slugVars, sortVars, backend, finished, statuses>>

\* clean.rs 25-29: get_all_statuses has returned, the filter is next
CleanStatusesDone ==
    /\ pc = "collected"
    /\ cmd = "clean"
    /\ pc' = "clean_select"
    /\ UNCHANGED <<registry, envVars, cmd, opts, repo_root, worktrees,
                   cleanVars, rmVars, prompts, answer, issued, results, msgs,
                   exit_code, auxVars>>

NextPrompt ==
    \/ RunPick
    \/ PickStart
    \/ \E i \in 1..MaxBatch : StatusWorker(i)
    \/ StatusCollect
    \/ PickSelect
    \/ \E merged \in BOOLEAN, gone \in BOOLEAN,
          stale_days \in {<<>>, <<StaleDays>>}, yes \in BOOLEAN :
          RunCleanStatuses(merged, gone, stale_days, FALSE, yes)
    \/ CleanStatusesDone
    \/ CleanSelect
    \/ CleanList
    \/ CleanCountDirty
    \/ CleanKeepClean
    \/ CleanConfirm
    \/ CleanRemoveItem
    \/ CleanReport

SpecPrompt == InitPrompt /\ [][NextPrompt]_vars

\* ---- clean while the worktrees change --------------------------------------------
\* The environment before `git workty clean` starts, run from a checkout of
\* the base branch's repository
InitLive == Init /\ start_path = None /\ base = "main"

\* Another process writes to a worktree, or commits or discards what was
\* written there, while clean is between its listing and its removals:
\* status::is_worktree_dirty reads the worktree's state at each call
WorktreeEdited(w) ==
    /\ cmd = "clean"
    /\ pc \in {"clean_list", "clean_count_dirty", "clean_keep_clean",
               "clean_confirm"}
    /\ dirty' = IF WorktreePath(w) \in dirty
                THEN dirty \ {WorktreePath(w)}
                ELSE dirty \cup {WorktreePath(w)}
    /\ UNCHANGED <<registry, base, cwd, start_path, stdin_tty, pc, cmd, opts,
                   repo_root, worktrees, cleanVars, rmVars, prompts, answer,
                   issued, results, msgs, exit_code, auxVars>>

NextLive ==
    \/ \E merged \in BOOLEAN, gone \in BOOLEAN,
          stale_days \in {<<>>, <<StaleDays>>},
          dry_run \in BOOLEAN, yes \in BOOLEAN :
          RunClean(merged, gone, stale_days, dry_run, yes)
    \/ CleanSelect
    \/ CleanList
    \/ CleanCountDirty
    \/ CleanKeepClean
    \/ CleanConfirm
    \/ CleanRemoveItem
    \/ CleanReport
    \/ \E w \in W \cap DirtyPool : WorktreeEdited(w)

SpecLive == InitLive /\ [][NextLive]_vars

\* ---- properties -------------------------------------------------------------------
IssuedRemovals == {i \in DOMAIN issued : issued[i].op = "worktree remove"}

MainWorktreePath == WorktreePath(1)

NonInteractiveWarning ==
    "Non-interactive mode requires --yes flag for destructive operations."

DirtyForceWarning == "Worktree has uncommitted changes (--force specified)"

\* C1: whatever the registry snapshot, the base branch and the filter flags,
\* clean's candidate set holds no worktree whose path is the current working
\* directory, none whose path is the repository root (the main worktree), no
\* detached worktree and none whose short branch name is the base branch.
C1_CandidatesExcludeProtected ==
    cmd = "clean" =>
        \A i \in DOMAIN candidates :
            /\ candidates[i].path # cwd
            /\ candidates[i].path # repo_root
            /\ ~candidates[i].detached
            /\ candidates[i].branch_short # base

\* A run with candidates whose snapshot also holds a current worktree that is
\* not the root, a detached worktree and a worktree on the base branch.
C1_Witness ==
    /\ cmd = "clean"
    /\ candidates # <<>>
    /\ cwd # repo_root
    /\ \E i \in DOMAIN worktrees : worktrees[i].path = cwd
    /\ \E i \in DOMAIN worktrees : worktrees[i].path = repo_root
    /\ \E i \in DOMAIN worktrees : worktrees[i].detached
    /\ \E i \in DOMAIN worktrees : worktrees[i].branch_short = base

\* C2: with none of merged, gone and stale set, clean's candidate set is
\* empty, and clean shows no confirmation prompt and issues no removal.
C2_NoFilterNoCandidates ==
    (cmd = "clean" /\ ~opts.merged /\ ~opts.gone /\ opts.stale_days = <<>>) =>
        /\ candidates = <<>>
        /\ prompts = 0
        /\ issued = <<>>
        /\ pc \in {"clean_select", "done"}

\* A finished run without filters over a snapshot with worktrees that pass
\* every exclusion, with --yes given.
C2_Witness ==
    /\ cmd = "clean"
    /\ ~opts.merged /\ ~opts.gone /\ opts.stale_days = <<>>
    /\ opts.yes
    /\ pc = "done"
    /\ Eligible(worktrees, cwd, repo_root, base) # {}

\* C3: rm never issues a backend removal for the main worktree (the original
\* checkout), whatever force and yes are and whichever worktree the command
\* is started from; a run that targets it ends with a non-zero exit.
C3_RmNeverRemovesMain ==
    cmd = "rm" =>
        /\ \A i \in IssuedRemovals : issued[i].path # MainWorktreePath
        /\ (pc = "done" /\ target # <<>> /\ target[1].path = MainWorktreePath)
              => exit_code # 0

\* C4: rm never issues a backend removal for the worktree that contains the
\* current working directory, at its root or deeper inside, whatever force
\* and yes are; a run that targets it ends with a non-zero exit.
C4_RmNeverRemovesCurrent ==
    cmd = "rm" =>
        /\ \A i \in IssuedRemovals : issued[i].path # ShowToplevel(cwd)
        /\ (pc = "done" /\ target # <<>> /\ target[1].path = ShowToplevel(cwd))
              => exit_code # 0

\* C5: rm issues the removal only after --yes was given or the user answered
\* the prompt with yes; with a non-interactive stdin and no --yes, rm fails
\* and removes nothing.
C5_RmRemovesOnlyWhenApproved ==
    cmd = "rm" =>
        /\ IssuedRemovals # {} => (opts.yes \/ answer = "yes")
        /\ (~stdin_tty /\ ~opts.yes) => issued = <<>>
        /\ (~stdin_tty /\ ~opts.yes /\ pc = "done") => exit_code # 0

\* C6: when clean has a non-dirty candidate, dry-run is off, stdin is not
\* interactive and --yes was not given, clean exits with code 1 and issues no
\* backend removal.
C6_CleanRefusesNonInteractive ==
    (/\ cmd = "clean"
     /\ clean_candidates # <<>>
     /\ ~opts.dry_run
     /\ ~stdin_tty
     /\ ~opts.yes) =>
        /\ issued = <<>>
        /\ prompts = 0
        /\ pc \in {"clean_confirm", "done"}
        /\ pc = "done" => exit_code = 1

\* Such a run, ended with the non-interactive warning.
C6_Witness ==
    /\ cmd = "clean"
    /\ clean_candidates # <<>>
    /\ ~opts.dry_run /\ ~stdin_tty /\ ~opts.yes
    /\ pc = "done"
    /\ exit_code = 1
    /\ NonInteractiveWarning \in msgs

\* The candidates that have no uncommitted changes, in candidate order
NonDirtyCandidates ==
    LET Clean(wt) == wt.path \notin dirty
    IN  SelectSeq(candidates, Clean)

\* C7: every candidate, dirty ones included, is listed; no removal is issued
\* for a dirty candidate; the run goes on with the others, attempting each
\* non-dirty candidate; and when every removal succeeds the reported count is
\* the number of non-dirty candidates.
C7_DirtyCandidatesListedNotRemoved ==
    cmd = "clean" =>
        /\ pc \notin {"clean_select", "clean_list"} =>
              listed = [i \in DOMAIN candidates |->
                          [name |-> Name(candidates[i]),
                           dirty |-> candidates[i].path \in dirty]]
        /\ \A i \in IssuedRemovals : issued[i].path \notin dirty
        /\ (pc = "done" /\ NonDirtyCandidates # <<>> /\ ~opts.dry_run) =>
              (prompts > 0 \/ opts.yes \/ NonInteractiveWarning \in msgs)
        /\ reported # <<>> =>
              /\ Len(issued) = Len(NonDirtyCandidates)
              /\ \A i \in DOMAIN issued :
                    issued[i].path = NonDirtyCandidates[i].path
        /\ (reported # <<>> /\ \A i \in DOMAIN results : results[i] = "ok") =>
              reported[1] = Len(NonDirtyCandidates)

\* Three candidates of which one is dirty, every removal succeeded, and 2 is
\* the reported count.
C7_Witness ==
    /\ cmd = "clean"
    /\ Len(candidates) = 3
    /\ Len(listed) = 3
    /\ dirty_count = 1
    /\ \E i \in DOMAIN listed : listed[i].dirty
    /\ \A i \in DOMAIN results : results[i] = "ok"
    /\ reported = <<2>>

\* C8: in clean's removal phase a backend failure on one candidate, whether
\* the backend reports an error or the call cannot be run, never prevents
\* the attempt for a later candidate, and the final reported count is the
\* number of removals that succeeded.
C8_FailureNeverStopsTheBatch ==
    (cmd = "clean" /\ pc = "done" /\ issued # <<>>) =>
        /\ Len(issued) = Len(clean_candidates)
        /\ reported =
              <<Cardinality({i \in DOMAIN results : results[i] = "ok"})>>

\* C9: with a dirty target, rm without --force ends with a non-zero exit and
\* issues no removal, --yes or not; with --force it prints the warning, goes
\* on to the confirmation, and any removal it issues is forced.
C9_RmDirtyGuard ==
    (cmd = "rm" /\ target # <<>> /\ target[1].path \in dirty) =>
        /\ ~opts.force =>
              /\ issued = <<>>
              /\ prompts = 0
              /\ pc = "done"
              /\ exit_code # 0
        /\ (/\ opts.force
            /\ target[1].path # cwd
            /\ ~IsMainWorktree(target[1], repo_root)) =>
              /\ DirtyForceWarning \in msgs
              /\ "Worktree has uncommitted changes" \notin msgs
              /\ pc = "done" =>
                    (prompts > 0 \/ RmConfirmGate(opts, stdin_tty) # "prompt")
              /\ \A i \in IssuedRemovals : issued[i].force

\* A dirty target removed with --force after the warning and the prompt.
C9_Witness ==
    /\ cmd = "rm"
    /\ target # <<>>
    /\ target[1].path \in dirty
    /\ opts.force
    /\ DirtyForceWarning \in msgs
    /\ prompts = 1
    /\ answer = "yes"
    /\ IssuedRemovals # {}
    /\ \A i \in IssuedRemovals :
          issued[i].force /\ issued[i].path = target[1].path

\* C10: with dry-run set, clean issues no backend removal and shows no
\* prompt, whatever the candidates and the other flags are; it ends after the
\* listing.
C10_DryRunMutatesNothing ==
    (cmd = "clean" /\ opts.dry_run) =>
        /\ issued = <<>>
        /\ prompts = 0
        /\ registry = worktrees
        /\ pc \in {"clean_select", "clean_list", "done"}
        /\ pc = "done" =>
              /\ exit_code = 0
              /\ Len(listed) = Len(candidates)

\* A finished dry run with --yes over candidates that include a non-dirty one.
C10_Witness ==
    /\ cmd = "clean"
    /\ opts.dry_run
    /\ opts.yes
    /\ pc = "done"
    /\ Len(listed) > 1
    /\ NonDirtyCandidates # <<>>
    /\ "Dry run - no worktrees removed." \in msgs

\* ---- create ---------------------------------------------------------------------
\* The registry as it was when `new` started: worktrees are only ever appended
StartRegistry == SubSeq(registry, 1, NumWorktrees)

AddCommands == {"worktree add", "worktree add -b"}

\* The backend commands of `new` that change something
NewMutations == AddCommands \cup {"fetch", "push"}

\* C11: create for a branch that is already checked out in an existing
\* worktree fails with the branch-already-checked-out error that reports the
\* existing worktree's path, and creates no worktree.
C11_CheckedOutBranchIsReported ==
    (/\ cmd = "new"
     /\ pc = "done"
     /\ CheckedOutAt(StartRegistry, new_opts.name) # <<>>)
        => /\ exit_code # 0
           /\ "Branch is already checked out" \in msgs
           /\ existing_wt = CheckedOutAt(StartRegistry, new_opts.name)
           /\ Len(registry) = NumWorktrees

\* C12: if the target path of create (the explicit path, or the slugified
\* branch under the workspace root) exists when create starts, create fails
\* and mutates nothing: no directory is created, no worktree is added, and
\* no worktree-add, fetch or push is issued.
C12_ExistingTargetNoMutation ==
    [][(pc = "new_check" /\ PathExists(TargetPath(new_opts), fs))
          => /\ pc' = "done"
             /\ exit_code' # 0
             /\ issued = <<>>
             /\ issued' = <<>>
             /\ fs' = fs
             /\ registry' = registry
             /\ branches' = branches]_vars

\* create has ended on a default path that was already there, for a branch
\* that no worktree has checked out
C12_Witness ==
    /\ cmd = "new"
    /\ pc = "done"
    /\ exit_code = 1
    /\ new_opts.path = <<>>
    /\ worktree_path[1] \in fs
    /\ CheckedOutAt(registry, new_opts.name) = <<>>
    /\ issued = <<>>
    /\ Len(registry) = NumWorktrees

\* C13: the failure of a best-effort step (the fetch of the base's upstream,
\* the publishing push, the spawn of the open command) never changes the
\* outcome of create: it ends successfully exactly when the backend's
\* worktree-add succeeded.
C13_BestEffortStepsNeverDecide ==
    (cmd = "new" /\ pc = "done")
        => (exit_code = 0 <=>
               \E i \in DOMAIN issued :
                  issued[i].op \in AddCommands /\ results[i] = "ok")

\* create has succeeded although the fetch, the push and the spawn of the
\* open command all failed
C13_Witness ==
    /\ cmd = "new"
    /\ pc = "done"
    /\ exit_code = 0
    /\ \E i \in DOMAIN issued : issued[i].op = "fetch" /\ results[i] # "ok"
    /\ \E i \in DOMAIN issued : issued[i].op = "push" /\ results[i] # "ok"
    /\ \E i \in DOMAIN issued : issued[i].op = "open" /\ results[i] # "ok"

\* ---- rm: the branch deletion ----------------------------------------------------
BranchDeletions == {i \in DOMAIN issued : issued[i].op = "branch -d"}

\* C14: rm attempts the branch deletion only when delete-branch is set and
\* only after the worktree removal succeeded; a failed branch deletion is
\* reported as a warning and rm still ends successfully with the worktree
\* removed, while a failed worktree removal makes rm fail without any
\* branch-deletion attempt.
C14_BranchDeletionFollowsRemoval ==
    cmd = "rm" =>
        /\ \A i \in BranchDeletions :
              /\ opts.delete_branch
              /\ i > 1
              /\ issued[i - 1].op = "worktree remove"
              /\ results[i - 1] = "ok"
              /\ \A k \in DOMAIN registry : registry[k].path # target[1].path
              /\ pc = "done"
              /\ exit_code = 0
              /\ results[i] # "ok" => "Could not delete branch" \in msgs
        /\ \A i \in IssuedRemovals :
              results[i] # "ok" => /\ pc = "done"
                                   /\ exit_code # 0
                                   /\ BranchDeletions = {}

\* rm has ended successfully after a removal that succeeded and a branch
\* deletion that failed
C14_Witness ==
    /\ cmd = "rm"
    /\ pc = "done"
    /\ exit_code = 0
    /\ opts.delete_branch
    /\ \E i \in BranchDeletions : results[i] = "failed"
    /\ "Could not delete branch" \in msgs

\* ---- worktree lookup --------------------------------------------------------------
\* C15: find(name) returns a worktree whose short branch name equals name
\* whenever the snapshot has one, and only when no worktree has that branch
\* name a worktree whose final path segment equals name; it returns nothing
\* when no worktree matches exactly.
C15_FindPrefersBranch ==
    (cmd = "rm" /\ pc \notin {"idle", "rm_check"})
        => LET name == opts.name
               byBranch == {i \in DOMAIN worktrees :
                               worktrees[i].branch_short = name}
               byDir == {i \in DOMAIN worktrees :
                            FileName(worktrees[i].path) = name}
           IN  IF byBranch # {}
               THEN target # <<>> /\ target[1].branch_short = name
               ELSE IF byDir # {}
               THEN target # <<>> /\ FileName(target[1].path) = name
               ELSE target = <<>>

\* ---- parsing ----------------------------------------------------------------------
\* The records of an output: its maximal runs of non-empty lines
RECURSIVE RecordsOf(_)
RecordsOf(ls) ==
    IF ls = <<>> THEN <<>>
    ELSE IF Head(ls) = <<>> THEN RecordsOf(Tail(ls))
    ELSE LET n == CHOOSE k \in 1..Len(ls) :
                     /\ \A j \in 1..k : ls[j] # <<>>
                     /\ k = Len(ls) \/ ls[k + 1] = <<>>
         IN  <<SubSeq(ls, 1, n)>> \o RecordsOf(SubSeq(ls, n + 1, Len(ls)))

PathLines(rec) ==
    {i \in DOMAIN rec : Len(rec[i]) >= 2 /\ rec[i][1] = "worktree"}

HasPath(rec) == PathLines(rec) # {}

FlaggedBare(rec) == \E i \in DOMAIN rec : rec[i] = <<"bare">>

\* The path a record gives: the value of its last worktree line
PathOf(rec) ==
    Tail(rec[CHOOSE i \in PathLines(rec) : \A j \in PathLines(rec) : j <= i])

KeptRecord(rec) == HasPath(rec) /\ ~FlaggedBare(rec)

\* C16: for any sequence of blank-line-separated records, parse_worktree_list
\* yields exactly one Worktree per record that has a worktree path and is not
\* flagged bare, in the original order; records without a path and records
\* flagged bare are dropped whatever their other fields; a last record
\* without a terminating blank line is still captured; unrecognised keys are
\* ignored.
C16_OneWorktreePerKeptRecord ==
    pc = "parsed" =>
        LET kept == SelectSeq(RecordsOf(output), KeptRecord)
        IN  /\ Len(worktrees) = Len(kept)
            /\ \A k \in DOMAIN kept :
                  /\ worktrees[k].path = PathOf(kept[k])
                  /\ worktrees[k].detached
                        = (\E i \in DOMAIN kept[k] : kept[k][i] = <<"detached">>)

\* An output was parsed whose first record has a path and is flagged bare and
\* whose second, last record has no blank line after it: one worktree, the
\* second record's
C16_Witness ==
    /\ pc = "parsed"
    /\ Len(RecordsOf(output)) = 2
    /\ HasPath(RecordsOf(output)[1])
    /\ FlaggedBare(RecordsOf(output)[1])
    /\ output[Len(output)] # <<>>
    /\ Len(worktrees) = 1
    /\ worktrees[1].path = PathOf(RecordsOf(output)[2])

\* ---- slugs ------------------------------------------------------------------------
\* C17: slug_from_branch is idempotent, and its output holds only
\* alphanumerics, '-' and '_' and neither starts nor ends with '-'.
C17_SlugIsCleanAndStable ==
    /\ slug_out # <<>> =>
          LET s == slug_out[1]
          IN  /\ \A i \in 1..Len(s) :
                    IsAlphanumeric(s[i]) \/ s[i] = "-" \/ s[i] = "_"
              /\ Len(s) > 0 => (s[1] # "-" /\ s[Len(s)] # "-")
    /\ slug_again # <<>> => slug_again[1] = slug_out[1]

\* A name that starts with a replaced character and has another between two
\* alphanumerics was slugged twice: the slug lost the first and kept a '-'
\* for the second
C17_Witness ==
    /\ pc = "reslugged"
    /\ Len(branch) >= 3
    /\ branch[1] = "/"
    /\ \E i \in 2..(Len(branch) - 1) :
          /\ branch[i] = " "
          /\ IsAlphanumeric(branch[i - 1])
          /\ IsAlphanumeric(branch[i + 1])
    /\ Len(slug_out[1]) = Len(branch) - 1
    /\ \E i \in 1..Len(slug_out[1]) : slug_out[1][i] = "-"
    /\ slug_again = slug_out

\* ---- the listed order -------------------------------------------------------------
IsCurrentRow(row) == row.wt.path = list_current_path

NameOf(row) == Chars(Name(row.wt))

C19_OnePairPerWorktreeInOrder ==
    statuses # <<>> =>
        /\ Len(statuses[1]) = Len(worktrees)
        /\ \A i \in DOMAIN worktrees :
              /\ statuses[1][i].wt = worktrees[i]
              /\ statuses[1][i].status
                    = GetWorktreeStatus(worktrees[i], backend[i])

\* A batch of MaxBatch worktrees with different statuses was collected after
\* the workers finished them in reverse order
C19_Witness ==
    /\ statuses # <<>>
    /\ Len(worktrees) = MaxBatch
    /\ \A k \in DOMAIN finished : finished[k] = MaxBatch + 1 - k
    /\ \A i, j \in DOMAIN worktrees :
          i # j => statuses[1][i].status # statuses[1][j].status

\* The backend cannot open the worktree, or it fails each query made on it
Unreadable(f) == ~f.open \/ (f.statuses = <<>> /\ f.head = "err")

\* What is left of a status when queries on an opened worktree fail: each
\* field falls back to its default
Degraded(st, f) ==
    /\ f.statuses = <<>> => st.dirty_count = 0
    /\ (f.head # "branch" \/ ~f.shorthand \/ ~f.find_branch
           \/ f.upstream = None)
          => (st.upstream = None /\ st.ahead = <<>> /\ st.behind = <<>>)
    /\ (~f.targets \/ f.graph = <<>>) => (st.ahead = <<>> /\ st.behind = <<>>)

\* C20: computing a worktree's status never fails outward and never aborts
\* the batch: when the backend cannot open or query that worktree its status
\* degrades to the default (dirty count 0, no upstream, no ahead/behind), and
\* the statuses of all other worktrees are still produced.
C20_StatusDegradesToDefault ==
    /\ \A i \in DOMAIN slots :
          slots[i] # <<>> =>
             /\ Unreadable(backend[i]) => slots[i][1].status = DefaultStatus
             /\ backend[i].open => Degraded(slots[i][1].status, backend[i])
    /\ pc = "collected" =>
          /\ DOMAIN statuses[1] = DOMAIN worktrees
          /\ \A i \in DOMAIN worktrees :
                /\ statuses[1][i].status.dirty_count \in Nat
                /\ Unreadable(backend[i])
                      => statuses[1][i].status = DefaultStatus
                /\ backend[i].open
                      => Degraded(statuses[1][i].status, backend[i])

\* A batch was collected in which one worktree could not be opened, another
\* failed its queries, and a third has a status that is not the default
C20_Witness ==
    /\ pc = "collected"
    /\ \E i \in DOMAIN worktrees : ~backend[i].open
    /\ \E i \in DOMAIN worktrees :
          backend[i].open /\ Unreadable(backend[i])
    /\ \E i \in DOMAIN worktrees : statuses[1][i].status # DefaultStatus

\* ---- C21 ----
\* The claim's three ways of becoming a candidate, stated on the backend's
\* answers for one worktree
MergedInto(f) == f.is_merged = "true"

UpstreamGone(f) == f.upstream_gone

AgeExceeds(f, days) ==
    f.last_commit_time # <<>> /\ f.last_commit_time[1] > days * 24 * 60 * 60

\* The filter has run
Filtered == cmd = "clean" /\ pc \notin {"idle", "clean_select"}

\* The claim's example: clean --merged run from the original checkout, with
\* feat/x merged and not dirty, feat/y not merged and dirty, and nothing
\* else merged
MergedExample ==
    /\ cwd = WorktreePath(1)
    /\ opts.merged /\ ~opts.gone /\ opts.stale_days = <<>>
    /\ MergedInto(answers[WorktreePath(2)])
    /\ WorktreePath(2) \notin dirty
    /\ ~MergedInto(answers[WorktreePath(4)])
    /\ WorktreePath(4) \in dirty
    /\ \A w \in W \ {1, 2, 4} : ~MergedInto(answers[WorktreePath(w)])

\* C21: a worktree that passes the exclusions is a candidate exactly when
\* merged was requested and the ancestry check answered true (an error counts
\* as not merged), or gone was requested and its upstream disappeared, or
\* stale was requested and its last-commit age exceeds the threshold in days;
\* in the example the candidates are exactly feat/x and the count printed
\* after its removal is 1.
C21_CandidateExactlyWhenFilterMatches ==
    Filtered =>
        /\ \A i \in DOMAIN worktrees :
              LET wt == worktrees[i]
              IN  ~Excluded(wt, cwd, repo_root, base) =>
                     ((\E k \in DOMAIN candidates : candidates[k] = wt)
                      <=> \/ opts.merged /\ MergedInto(answers[wt.path])
                          \/ opts.gone /\ UpstreamGone(answers[wt.path])
                          \/ /\ opts.stale_days # <<>>
                             /\ AgeExceeds(answers[wt.path], opts.stale_days[1]))
        /\ \A k \in DOMAIN candidates :
              \E i \in DOMAIN worktrees : candidates[k] = worktrees[i]
        /\ MergedExample =>
              /\ candidates = <<Worktree(2, FALSE)>>
              /\ (pc = "done" /\ results = <<"ok">>) => reported = <<1>>

\* clean --merged ended in the example: feat/x was the only candidate, its
\* removal succeeded and the count printed is 1
C21_Witness ==
    /\ Filtered
    /\ MergedExample
    /\ pc = "done"
    /\ candidates = <<Worktree(2, FALSE)>>
    /\ results = <<"ok">>
    /\ reported = <<1>>

\* ---- C22 ----
\* pick has ended
PickDone == cmd = "pick" /\ pc = "done"

\* C22: pick prints the path of exactly the selected worktree and ends with
\* exit code 0; a cancellation prints no path and ends with 130, which no
\* failure produces; without a terminal pick ends with 1 and shows no prompt.
C22_PickOutcome ==
    PickDone =>
        /\ answer = "selected" =>
              /\ selection # <<>>
              /\ selection[1] \in DOMAIN worktrees
              /\ printed = <<Items(statuses[1])[selection[1]].path>>
              /\ printed = <<worktrees[selection[1]].path>>
              /\ exit_code = 0
        /\ answer = "cancelled" => printed = <<>> /\ exit_code = 130
        /\ answer \notin {"selected", "cancelled"} =>
              printed = <<>> /\ exit_code = 1
        /\ ~stdin_tty => exit_code = 1 /\ prompts = 0 /\ printed = <<>>
        /\ exit_code = 130 <=> answer = "cancelled"
        /\ exit_code = 0 <=> answer = "selected"

\* the user selected the second of several items: its path is the one line
\* printed and the exit code is 0
C22_Witness ==
    /\ PickDone
    /\ answer = "selected"
    /\ prompts = 1
    /\ Len(worktrees) > 2
    /\ selection = <<2>>
    /\ printed = <<WorktreePath(2)>>
    /\ exit_code = 0

\* ---- C23 ----
\* C23: clean issues a removal only after the batch was approved, by --yes or
\* by an affirmative answer to the one prompt; the prompt is shown at most
\* once and before the first removal, never between items; after a declined
\* prompt nothing is removed.
C23_OneApprovalPerBatch ==
    /\ [](cmd = "clean" =>
            /\ prompts <= 1
            /\ IssuedRemovals # {} =>
                  \/ opts.yes /\ prompts = 0
                  \/ ~opts.yes /\ prompts = 1 /\ answer = "yes"
            /\ answer \in {"no", "error"} =>
                  IssuedRemovals = {} /\ registry = worktrees)
    /\ [][cmd = "clean" /\ prompts' # prompts =>
             /\ issued = <<>>
             /\ next_item = 1
             /\ prompts' = 1]_vars

\* one affirmative answer to one prompt was followed by two removals
C23_Witness ==
    /\ cmd = "clean"
    /\ ~opts.yes
    /\ prompts = 1
    /\ answer = "yes"
    /\ Cardinality(IssuedRemovals) >= 2

\* ---- C24 ----
\* The worktrees registered at a path
RegisteredAt(path) == {i \in DOMAIN registry : registry[i].path = path}

\* Both processes passed the existence check of the same free target path
\* and went on to the backend
BothPassedCheck ==
    /\ racers # <<>>
    /\ racers[1].worktree_path = racers[2].worktree_path
    /\ Len(issued) = 2

Reordered(perm) == [k \in DOMAIN rows |-> rows[perm[k]]]

\* C25: the comparison never reports two distinct worktrees of a snapshot as
\* equal, so every input order of the snapshot's rows is listed in the same
\* order.
C25_ListedOrderIgnoresInputOrder ==
    sorted # <<>> =>
        /\ \A i, j \in DOMAIN rows :
              i # j => Compare(rows[i], rows[j], list_current_path) # "Equal"
        /\ \A perm \in Permutations(DOMAIN rows) :
              SortWorktrees(Reordered(perm), list_current_path) = sorted[1]

\* ---- C26 ----
\* The commands `new` has issued with a given name
IssuedOps(op) == {i \in DOMAIN issued : issued[i].op = op}

\* new.rs 47: the base as resolved from --from and the configuration
ResolvedBase == IF new_opts.from # None THEN new_opts.from ELSE base

\* The branch asked for existed before `new` ran: it exists now and no
\* successful `worktree add -b` of this run made it
ExistedBefore ==
    /\ new_opts.name \in branches
    /\ \A i \in IssuedOps("worktree add -b") : results[i] # "ok"

\* The mode follows the branch: an existing branch is attached with no base,
\* no fetch and no push, a missing one is created with -b
ModeFollowsBranch ==
    /\ IssuedOps("worktree add") # {} =>
          /\ ExistedBefore
          /\ \A i \in IssuedOps("worktree add") : issued[i].base = None
          /\ IssuedOps("fetch") = {}
          /\ IssuedOps("push") = {}
          /\ IssuedOps("worktree add -b") = {}
    /\ IssuedOps("worktree add -b") # {} =>
          /\ ~ExistedBefore
          /\ IssuedOps("worktree add") = {}
    /\ pc = "new_attach" => ExistedBefore
    /\ pc \in {"new_fetch", "new_add"} => ~ExistedBefore

\* C26 as stated: the mode follows local branch existence, and a new branch
\* is created from the --from value, or from the configured base without one.
C26_ModeAndBaseAsStated ==
    cmd = "new" =>
        /\ ModeFollowsBranch
        /\ \A i \in IssuedOps("worktree add -b") : issued[i].base = ResolvedBase

\* C26, amended: the mode follows local branch existence, and a new branch is
\* created from the upstream of the resolved base when that upstream has the
\* form remote/branch, else from the resolved base (the --from value, or the
\* configured base without one).
C26_ModeAndBase ==
    cmd = "new" =>
        /\ ModeFollowsBranch
        /\ \A i \in IssuedOps("worktree add -b") :
              issued[i].base = IF SplitOnceSlash(upstream) # <<>>
                               THEN upstream ELSE ResolvedBase

\* an existing branch was attached: one `worktree add` without a base and
\* nothing else issued before the worktree was there
C26_Witness ==
    /\ cmd = "new"
    /\ pc = "new_finish"
    /\ ExistedBefore
    /\ Len(issued) = 1
    /\ issued[1].op = "worktree add"
    /\ issued[1].base = None
    /\ results = <<"ok">>

\* ---- C30 ----
\* C30: a new branch starts from the upstream of the base when the base has
\* an upstream of the form remote/branch, with or without --from and whatever
\* came of the fetch; without such an upstream it starts from the base.
C30_NewBranchStartsFromUpstream ==
    cmd = "new" =>
        \A i \in IssuedOps("worktree add -b") :
            /\ SplitOnceSlash(upstream) # <<>> =>
                  /\ issued[i].base = upstream
                  /\ i = 2
                  /\ issued[1].op = "fetch"
            /\ SplitOnceSlash(upstream) = <<>> =>
                  /\ issued[i].base = ResolvedBase
                  /\ i = 1

\* with --from given and the fetch of origin/main failed, the new branch was
\* created from origin/main
C30_Witness ==
    /\ cmd = "new"
    /\ new_opts.from # None
    /\ upstream = "origin/main"
    /\ Len(issued) >= 2
    /\ issued[1].op = "fetch"
    /\ results[1] = "failed"
    /\ issued[2].op = "worktree add -b"
    /\ issued[2].base = "origin/main"
    /\ results[2] = "ok"

\* ---- C27 ----
\* The statuses the workers have produced so far
Produced == {slots[i][1].status : i \in {k \in DOMAIN slots : slots[k] # <<>>}}

\* C27: in every status produced, ahead is present exactly when behind is,
\* and both are absent when upstream is absent.
C27_CountsOnlyWithUpstream ==
    \A st \in Produced :
        /\ st.ahead # <<>> <=> st.behind # <<>>
        /\ st.upstream = None => (st.ahead = <<>> /\ st.behind = <<>>)

\* ---- C28 ----
\* get_all_statuses was called in this run
StatusesRequested ==
    \/ cmd = "pick" /\ worktrees # <<>>
    \/ cmd = "clean" /\ StatusesGathered(opts)

\* C28: in pick and in clean the prompt opens only when every status worker
\* of the run has finished and the statuses were collected; no worker is
\* left running once a prompt was shown.
C28_PromptAfterStatuses ==
    /\ [](prompts > 0 => pending = {})
    /\ [][prompts' # prompts =>
             /\ pending = {}
             /\ pc # "statuses"
             /\ StatusesRequested =>
                   /\ statuses # <<>>
                   /\ Len(statuses[1]) = Len(worktrees)
                   /\ Len(finished) = Len(worktrees)]_vars

\* clean --gone asked for confirmation after the statuses of several
\* worktrees were collected
C28_Witness ==
    /\ cmd = "clean"
    /\ opts.gone
    /\ prompts = 1
    /\ Len(worktrees) > 2
    /\ Len(finished) = Len(worktrees)
    /\ statuses # <<>>

\* ---- C29 ----
\* The positions of the listing whose worktree clean tried to remove
AttemptedOfListed ==
    {i \in DOMAIN listed :
        \E k \in IssuedRemovals : issued[k].path = candidates[i].path}

\* C29: every worktree clean tries to remove was listed without the dirty
\* annotation in the same run, and once the removals are through, the count
\* announced as skipped is the number of listed candidates clean did not try
\* to remove.
C29_RemovalsMatchTheListing ==
    cmd = "clean" =>
        /\ \A i \in AttemptedOfListed : ~listed[i].dirty
        /\ (pc = "done" /\ reported # <<>>) =>
              dirty_count = Len(listed) - Cardinality(AttemptedOfListed)

====
